---- MODULE Spec2Model ----
(***************************************************************************)
(* Text-detection pipeline of manga-image-translator-rust.                 *)
(*                                                                         *)
(*   SpecDetect  : the detector orchestrator (Detector::detect driving     *)
(*                 common::detect) with its image operations.              *)
(*   SpecArrange : the patch rearrangement engine (det_rearrange_forward,  *)
(*                 patch2batches, unrearrange).                            *)
(*                                                                         *)
(* Floating point: every f64 expression modelled here is a quotient of two *)
(* integers far below 2^32 followed by floor, ceil, a truncating cast or a *)
(* comparison with a constant, so it is computed exactly with integers.    *)
(***************************************************************************)
EXTENDS Integers, Sequences, FiniteSets, TLC

VARIABLES
    \* ---- detector orchestrator ----
    pc,                     \* position inside Detector::detect / common::detect
    image,                  \* the caller's image: [width, height]
    pre_processor_options,  \* the options of the running pass
    pass,                   \* number of Detector::detect activations so far
    infer_calls,            \* number of times the infer callback ran
    img,                    \* the image handed to infer: [width, height, ops]
    add_border,             \* <<>> (None) or <<w, h>> (Some((w, h)))
    textlines,              \* quadrilaterals held by common::detect
    mask,                   \* the mask held by common::detect
    probe,                  \* a pixel of the image handed to rotate_right, and
    probe_pos,              \*   where that pixel currently is (<<>> = none)
    \* ---- patch rearrangement engine ----
    apc,                    \* position inside det_rearrange_forward
    arr_in,                 \* its arguments: img, tgt_size, max_batch_size
    geo,                    \* the geometry computed from the input image
    par_done,               \* items finished by the parallel workers of a phase
    patch_list,             \* the extracted bands and the blank padding bands
    rel_step_list,          \* per band slot: t of rel_step = t / h
    batches,                \* patch2batches' result: composite ids per batch
    in_flight,              \* batch indices whose callback has not returned
    call_log,               \* batch indices in the order the callback started
    outputs,                \* the callback's result for every batch
    patch_lst,              \* unpadded model outputs, one per composite patch
    tgtmap,                 \* the stitched map of unrearrange
    contrib,                \* per cell: the band values added to it
    loop_ii, loop_jj,       \* loop counters of unrearrange
    placed                  \* slot indices placed by unrearrange, in order

VARIABLES
    \* ---- a Quadrilateral being built (textlines.rs)
    qpc,                    \* position: the input, Quadrilateral::new, a rebuild
    quad_in,                \* the arguments of Quadrilateral::new
    quad,                   \* the Quadrilateral built from quad_in
    resorted,               \* the Quadrilateral built again from quad.pts()
    reordered               \* the Quadrilateral built from the input reordered

VARIABLES
    \* ---- the post-processing of DbNetDetector::infer (dbnet.rs, lib.rs)
    ppc,                    \* position inside infer's post-processing
    post_in,                \* the crate, the contours found, the thresholds
    index,                  \* loop counter of boxes_from_bitmap
    boxes,                  \* its boxes array, one row per candidate
    scores,                 \* its scores vector, one entry per candidate
    polys,                  \* filter_boxes_and_adjust's result
    quadrilateral           \* the Quadrilaterals infer returns

VARIABLES
    \* ---- roll_rows on its own (util/src/dbnet.rs)
    rpc,                    \* position: "input", then "rolled"
    roll_in,                \* the array (a sequence of rows) and the shift
    rolled                  \* roll_rows' result

VARIABLES
    \* ---- ModelDb::get (interface/src/models/mod.rs)
    mpc,                    \* position inside get
    db_in,                  \* expected hash and kind of url
    disk_file,              \* "absent" or the SHA-256 (hex) of the file at file_path
    checks,                 \* the results of the calls of failure(), in order
    downloads,              \* calls of download_and_extract so far
    removes                 \* calls of remove_file so far

VARIABLES
    \* ---- DbNetDetector as a Model (modules/detector/dbnet/src/lib.rs)
    lpc,                    \* "idle", or "ready" once DbNetDetector::new ran
    model,                  \* the field model: "None" or "Some"
    history                 \* the calls made so far, one record per call

VARIABLES
    \* ---- rotate_right followed by rotate_left (image/cpu.rs, image/rayon.rs)
    tpc,                    \* "idle", "input", "right", "left" or "panic"
    rot_in,                 \* the processor and the image handed to it
    rot_img                 \* the image after the rotations made so far

detVars == <<pc, image, pre_processor_options, pass, infer_calls, img,
             add_border, textlines, mask, probe, probe_pos>>
arrVars == <<apc, arr_in, geo, par_done, patch_list, rel_step_list, batches,
             in_flight, call_log, outputs, patch_lst, tgtmap, contrib,
             loop_ii, loop_jj, placed>>
quadVars == <<qpc, quad_in, quad, resorted, reordered>>

postVars == <<ppc, post_in, index, boxes, scores, polys, quadrilateral>>

rollVars == <<rpc, roll_in, rolled>>

dbVars == <<mpc, db_in, disk_file, checks, downloads, removes>>

loadVars == <<lpc, model, history>>

rotVars == <<tpc, rot_in, rot_img>>

vars == <<detVars, arrVars, quadVars, postVars, rollVars, dbVars, loadVars, rotVars>>

\* ---------------------------------------------------------------- helpers
Min(a, b) == IF a < b THEN a ELSE b
Max(a, b) == IF a < b THEN b ELSE a
Abs(a) == IF a < 0 THEN -a ELSE a
\* Rust's integer division truncates toward zero
TruncDiv(a, b) == IF a >= 0 THEN a \div b ELSE -((-a) \div b)
\* ceil(a / b) for a >= 0, b > 0
CeilDiv(a, b) == (a + b - 1) \div b
\* f64::round of the non-negative quotient a / b (half away from zero)
RoundDiv(a, b) == (2 * a + b) \div (2 * b)

\* the sequence f with every element computed
Eval(f) == f \o <<>>

\* body(v) for the value v of an expression, computed once
Bind(v, body(_)) == CHOOSE r \in {body(x) : x \in {v}} : TRUE

\* the index a stable ascending sort of the keys puts at position k (from 1)
IndexAtRank(key, k) ==
    CHOOSE i \in 1..Len(key) :
        Cardinality({j \in 1..Len(key) :
            key[j] < key[i] \/ (key[j] = key[i] /\ j < i)}) = k - 1

\* a stable sort of the sequence s by the integer keys key[i]
\* (slice::sort_by, slice::sort_by_key)
StableSort(s, key) ==
    Bind(Eval(key),
         LAMBDA ks : Eval([k \in 1..Len(s) |-> s[IndexAtRank(ks, k)]]))

\* ------------------------------------------------- Quadrilateral (textlines.rs)
NormSq(v) == v[1] * v[1] + v[2] * v[2]

\* sort_pnts lines 76-83: the 16 pairwise vectors pts[i] - pts[j]
pairwise_vec(pts) ==
    Eval([idx \in 1..16 |->
            <<pts[((idx - 1) \div 4) + 1][1] - pts[((idx - 1) % 4) + 1][1],
              pts[((idx - 1) \div 4) + 1][2] - pts[((idx - 1) % 4) + 1][2]>>])

\* sort_pnts lines 85-122: the sorted ranks 8 and 10 (counted from 0) of the
\* pairwise vectors give the long sides, whose mean decides the direction.
\* The norms are square roots of integers: they compare as the integers do.
is_vertical(pts) ==
    Bind(pairwise_vec(pts), LAMBDA pv :
      Bind(StableSort(pv, [idx \in 1..16 |-> NormSq(pv[idx])]), LAMBDA sorted :
        Bind(<<sorted[9], sorted[11]>>, LAMBDA long_side_vecs :
          LET v0 == long_side_vecs[1]
              v1 == long_side_vecs[2]
              inner_prod == v0[1] * v1[1] + v0[2] * v1[2]
              sum_x == (IF inner_prod < 0 THEN -v0[1] ELSE v0[1]) + v1[1]
              sum_y == (IF inner_prod < 0 THEN -v0[2] ELSE v0[2]) + v1[2]
          IN  Abs(sum_x) <= Abs(sum_y))))

\* the vertical order with the bottom pair left to right
sort_vertical_ltr(pts) ==
    Bind(StableSort(pts, [i \in 1..4 |-> pts[i][2]]), LAMBDA s :
      StableSort(<<s[1], s[2]>>, <<s[1][1], s[2][1]>>)
      \o StableSort(<<s[3], s[4]>>, <<s[3][1], s[4][1]>>))

\* sort_pnts lines 126-135: the vertical order
sort_vertical(pts) ==
    Bind(StableSort(pts, [i \in 1..4 |-> pts[i][2]]), LAMBDA s :
      StableSort(<<s[1], s[2]>>, <<s[1][1], s[2][1]>>)
      \o StableSort(<<s[3], s[4]>>, <<-s[3][1], -s[4][1]>>))

\* sort_pnts lines 137-145: the horizontal order
sort_horizontal(pts) ==
    Bind(StableSort(pts, [i \in 1..4 |-> pts[i][1]]), LAMBDA s :
      Bind(<<StableSort(<<s[1], s[2]>>, <<s[1][2], s[2][2]>>),
             StableSort(<<s[3], s[4]>>, <<s[3][2], s[4][2]>>)>>, LAMBDA lr :
        <<lr[1][1], lr[2][1], lr[2][2], lr[1][2]>>))

\* sort_pnts: the canonical point order and the vertical flag
sort_pnts(pts) ==
    IF is_vertical(pts)
    THEN [pts |-> sort_vertical(pts), vertical |-> TRUE]
    ELSE [pts |-> sort_horizontal(pts), vertical |-> FALSE]

\* Quadrilateral::new
QuadNew(points, score) ==
    Bind(sort_pnts(points), LAMBDA s :
        [pts |-> s.pts, score |-> score, vertical |-> s.vertical])

\* the edge midpoints taken one edge further round
structure_shifted(q) ==
    LET midpoint(a, b) == <<TruncDiv(a[1] + b[1], 2), TruncDiv(a[2] + b[2], 2)>>
    IN  <<midpoint(q.pts[2], q.pts[3]), midpoint(q.pts[4], q.pts[1]),
          midpoint(q.pts[3], q.pts[4]), midpoint(q.pts[1], q.pts[2])>>

\* Quadrilateral::structure: the four edge midpoints
structure(q) ==
    LET midpoint(a, b) == <<TruncDiv(a[1] + b[1], 2), TruncDiv(a[2] + b[2], 2)>>
    IN  <<midpoint(q.pts[1], q.pts[2]), midpoint(q.pts[3], q.pts[4]),
          midpoint(q.pts[2], q.pts[3]), midpoint(q.pts[4], q.pts[1])>>

\* aspect_ratio() > 1.0: horizontal_len / vertical_len > 1.0.  Both lengths are
\* square roots of integers; x / 0 is +inf (> 1.0) for x > 0 and 0 / 0 is NaN.
AspectRatioGtOne(q) ==
    LET s == structure(q)
        v1 == <<s[2][1] - s[1][1], s[2][2] - s[1][2]>>
        v2 == <<s[4][1] - s[3][1], s[4][2] - s[3][2]>>
    IN  NormSq(v2) > NormSq(v1)

\* ------------------------------------------------ image operations (cpu.rs)
BorderTarget == 400

\* ImageOp::add_border_wh on the dimensions of the image
add_border_wh(im, width, height) ==
    IF im.width > width /\ im.height > height
    THEN im
    ELSE [width |-> Max(width, im.width), height |-> Max(height, im.height)]

\* ImageOp::add_border
add_border_op(im, target_side_length) ==
    add_border_wh(im, target_side_length, target_side_length)

\* CpuImageProcessor::rotate_right on the dimensions
rotate_right(im) == [width |-> im.height, height |-> im.width]

\* CpuImageProcessor::rotate_right on one pixel: source row r = y, column c = x
\* is written to row dst_r = c, column dst_c = height - 1 - r
rotate_right_pos(im, p) == <<im.height - 1 - p[2], p[1]>>

\* remove_border_mask indexes mask.data[y*mask.width .. y*mask.width + width]
\* for every row y < height: a slice past the end of the data panics
remove_border_mask_panics(m, width, height) ==
    \E y \in 0..(height - 1) : y * m.width + width > m.len

\* CpuImageProcessor::remove_border_mask
remove_border_mask(m, width, height) ==
    [width |-> width, height |-> height, len |-> width * height]

\* rotate_left reads data[(r*width + c)*channels] for every r < height and
\* c < width through a raw pointer: no bounds check
rotate_left_reads_outside(m) == m.len < m.width * m.height

\* CpuImageProcessor::rotate_left_mask
rotate_left_mask(m) ==
    [width |-> m.height, height |-> m.width, len |-> m.width * m.height]

\* ------------------------------------------- detector orchestrator (mod.rs)
\* PreprocessorOptions::set_auto_rotate
set_auto_rotate(options, auto_rotate) ==
    [options EXCEPT !.auto_rotate = auto_rotate]

\* a recursive call that forgets to switch auto-rotate off
RetryOptions_keep(options) == options

\* the options Detector::detect passes to its recursive call
RetryOptions(options) == set_auto_rotate(options, FALSE)

\* common::detect, the auto-rotate decision (lines 39-50):
\*   textlines.len() * 2 >= textlines.iter().map(|v| v.aspect_ratio() > 1.0).count()
\* Iterator::count counts the mapped items, whatever their values
RerunNeeded(options, lines) ==
    /\ options.auto_rotate
    /\ IF lines # <<>>
       THEN LET mapped == [i \in 1..Len(lines) |-> AspectRatioGtOne(lines[i])]
            IN  Len(lines) * 2 >= Len(mapped)
       ELSE TRUE

\* common::detect, the point remap of the rotate-back (lines 67-71)
RemapPoint(p, img_h) == <<p[2], -p[1] + img_h>>

\* common::detect, the rotate-back of one quadrilateral (lines 63-75)
RemapQuad(q, img_h) ==
    QuadNew(Eval([i \in 1..4 |-> RemapPoint(q.pts[i], img_h)]), q.score)

\* ---- inputs of the orchestrator
MaxLines == 2
MaxPass == 3
DetDims == {100, 400, 1000}
Bools == {TRUE, FALSE}
OptionSet == [invert : Bools, gamma_correct : Bools, rotate : Bools,
              auto_rotate : Bools]
QuadPool == { QuadNew(<<<<0, 0>>, <<10, 0>>, <<10, 2>>, <<0, 2>>>>, 90),
              QuadNew(<<<<0, 0>>, <<2, 0>>, <<2, 10>>, <<0, 10>>>>, 80) }
TextlineChoices == UNION { [1..n -> QuadPool] : n \in 0..MaxLines }
\* NoneDetector::infer: Mask { width: img.width, height: img.height,
\* data: Vec::new() }
NoneDetectorMask(im) == [width |-> im.width, height |-> im.height, len |-> 0]

\* a mask of the size of the image given to infer, or the empty mask
MaskChoices(im) ==
    { [width |-> im.width, height |-> im.height, len |-> im.width * im.height],
      [width |-> 0, height |-> 0, len |-> 0] }
\* pixels of an image: its corners and the corner of the unpadded part
ProbePixels(im, orig) ==
    { <<0, 0>>, <<im.width - 1, 0>>, <<0, im.height - 1>>,
      <<im.width - 1, im.height - 1>>, <<orig.width - 1, orig.height - 1>> }

NoImg == [width |-> 0, height |-> 0, ops |-> <<>>]
NoMask == [width |-> 0, height |-> 0, len |-> 0]

ArrLocalsInit ==
    /\ geo = <<>> /\ par_done = {} /\ patch_list = <<>>
    /\ rel_step_list = <<>> /\ batches = <<>> /\ in_flight = {}
    /\ call_log = <<>> /\ outputs = <<>> /\ patch_lst = <<>> /\ tgtmap = <<>>
    /\ contrib = <<>> /\ loop_ii = 0 /\ loop_jj = 0 /\ placed = <<>>

PostLocalsInit ==
    /\ index = 0 /\ boxes = <<>> /\ scores = <<>> /\ polys = <<>>
    /\ quadrilateral = <<>>

PostIdle == ppc = "idle" /\ post_in = <<>> /\ PostLocalsInit

DbIdle ==
    /\ mpc = "idle" /\ db_in = <<>> /\ disk_file = "absent" /\ checks = <<>>
    /\ downloads = 0 /\ removes = 0

LoadIdle == lpc = "idle" /\ model = "None" /\ history = <<>>

RotIdle == tpc = "idle" /\ rot_in = <<>> /\ rot_img = <<>>

RollIdle == rpc = "idle" /\ roll_in = <<>> /\ rolled = <<>>

QuadIdle ==
    /\ qpc = "idle" /\ quad_in = <<>> /\ quad = <<>> /\ resorted = <<>>
    /\ reordered = <<>>

ArrIdle == apc = "idle" /\ arr_in = <<>> /\ ArrLocalsInit

InitDetect ==
    /\ pc = "start"
    /\ image \in [width : DetDims, height : DetDims]
    /\ pre_processor_options \in OptionSet
    /\ pass = 1
    /\ infer_calls = 0
    /\ img = NoImg
    /\ add_border = <<>>
    /\ textlines = <<>>
    /\ mask = NoMask
    /\ probe = <<>>
    /\ probe_pos = <<>>
    /\ ArrIdle
    /\ QuadIdle
    /\ PostIdle
    /\ RollIdle
    /\ DbIdle
    /\ LoadIdle
    /\ RotIdle

\* common::detect lines 14-35: border, rotation, inversion, gamma correction
Preprocess ==
    /\ pc = "start"
    /\ LET bordered == add_border_op(image, BorderTarget)
           turned == IF pre_processor_options.rotate
                     THEN rotate_right(bordered) ELSE bordered
           ops == <<"add_border">>
                  \o (IF pre_processor_options.rotate
                      THEN <<"rotate_right">> ELSE <<>>)
                  \o (IF pre_processor_options.invert
                      THEN <<"invert">> ELSE <<>>)
                  \o (IF pre_processor_options.gamma_correct
                      THEN <<"gamma_correction">> ELSE <<>>)
       IN  /\ add_border' = IF Min(image.width, image.height) < BorderTarget
                            THEN <<image.width, image.height>> ELSE <<>>
           /\ img' = [width |-> turned.width, height |-> turned.height,
                      ops |-> ops]
           /\ IF pre_processor_options.rotate
              THEN \E p \in ProbePixels(bordered, image) :
                      /\ probe' = p
                      /\ probe_pos' = rotate_right_pos(bordered, p)
              ELSE /\ probe' = <<>>
                   /\ probe_pos' = <<>>
    /\ pc' = "preprocessed"
    /\ UNCHANGED <<image, pre_processor_options, pass, infer_calls, textlines,
                   mask, arrVars, quadVars, postVars,
                   rollVars, dbVars, loadVars, rotVars>>

\* common::detect line 37: callback(img)?
Infer ==
    /\ pc = "preprocessed"
    /\ infer_calls' = infer_calls + 1
    /\ \/ /\ pc' = "error"
          /\ UNCHANGED <<textlines, mask>>
       \/ /\ pc' = "inferred"
          /\ textlines' \in TextlineChoices
          /\ mask' \in MaskChoices(img)
       \/ /\ pc' = "inferred"
          /\ textlines' = <<>>
          /\ mask' = NoneDetectorMask(img)
    /\ UNCHANGED <<image, pre_processor_options, pass, img, add_border, probe,
                   probe_pos, arrVars, quadVars, postVars,
                   rollVars, dbVars, loadVars, rotVars>>

\* common::detect lines 39-50: return Ok(None) when a rerun is needed
AutoRotateCheck ==
    /\ pc = "inferred"
    /\ pc' = IF RerunNeeded(pre_processor_options, textlines)
             THEN "rerun" ELSE "checked"
    /\ UNCHANGED <<image, pre_processor_options, pass, infer_calls, img,
                   add_border, textlines, mask, probe, probe_pos, arrVars, quadVars, postVars,
                   rollVars, dbVars, loadVars, rotVars>>

\* common::detect lines 52-78: undo the border, then undo the rotation
Postprocess ==
    /\ pc = "checked"
    /\ IF add_border # <<>>
          /\ remove_border_mask_panics(mask, add_border[1], add_border[2])
       THEN /\ pc' = "panic"
            /\ UNCHANGED <<textlines, mask, probe_pos>>
       ELSE LET img_h == image.height
                cropped == IF add_border # <<>>
                           THEN remove_border_mask(mask, add_border[1],
                                                   add_border[2])
                           ELSE mask
            IN  /\ IF /\ pre_processor_options.rotate
                      /\ rotate_left_reads_outside(cropped)
                   THEN pc' \in {"done", "fault"}
                   ELSE pc' = "done"
                /\ IF pre_processor_options.rotate
                   THEN /\ mask' = rotate_left_mask(cropped)
                        /\ textlines' = [i \in 1..Len(textlines) |->
                                           RemapQuad(textlines[i], img_h)]
                        /\ probe_pos' = RemapPoint(probe_pos, img_h)
                   ELSE /\ mask' = cropped
                        /\ UNCHANGED <<textlines, probe_pos>>
    /\ UNCHANGED <<image, pre_processor_options, pass, infer_calls, img,
                   add_border, probe, arrVars, quadVars, postVars,
                   rollVars, dbVars, loadVars, rotVars>>

\* a retry that also follows a failed pass
RetryOn_failure(outcome) == outcome \in {"rerun", "error"}

\* Detector::detect lines 55-60: `?` returns an Err; only None is retried
RetryOn(outcome) == outcome = "rerun"

\* Detector::detect lines 59-67: on None, call detect again
Retry ==
    /\ RetryOn(pc)
    /\ pass < MaxPass
    /\ pass' = pass + 1
    /\ pre_processor_options' = RetryOptions(pre_processor_options)
    /\ pc' = "start"
    /\ img' = NoImg
    /\ add_border' = <<>>
    /\ textlines' = <<>>
    /\ mask' = NoMask
    /\ probe' = <<>>
    /\ probe_pos' = <<>>
    /\ UNCHANGED <<image, infer_calls, arrVars, quadVars, postVars, rollVars,
                   dbVars, loadVars, rotVars>>

NextDetect ==
    \/ Preprocess
    \/ Infer
    \/ AutoRotateCheck
    \/ Postprocess
    \/ Retry

\* detect is a synchronous call: it keeps running until it returns
SpecDetect == InitDetect /\ [][NextDetect]_vars /\ WF_vars(NextDetect)

\* ------------------------------------------------ claims on the orchestrator
DetectReturned == pc \in {"done", "error", "panic", "fault"}

\* the number of quadrilaterals whose aspect_ratio() is above 1.0
WideCount(lines) ==
    Cardinality({i \in 1..Len(lines) : AspectRatioGtOne(lines[i])})

\* C1: one detect call runs infer at most twice: after a rerun signal the
\* pipeline runs once more with auto_rotate off, that second pass never signals
\* a rerun, and detect always returns (a result, a propagated infer error, or
\* the fatal abort of an image operation).
C1_BoundedRetry ==
    /\ [](/\ infer_calls <= 2
          /\ pass <= 2
          /\ (pass = 2 => ~pre_processor_options.auto_rotate)
          /\ (pass = 2 => pc # "rerun"))
    /\ <>DetectReturned

C1_Witness == pass = 2 /\ infer_calls = 2 /\ pc = "done"

\* C2: the options of the second pass have rotate = true and
\* auto_rotate = false, whatever rotate was on the first pass.
C2_RetryForcesRotate ==
    pass = 2 => /\ pre_processor_options.rotate
                /\ ~pre_processor_options.auto_rotate

\* C3: with auto_rotate on, a rerun is signalled exactly when infer found no
\* quadrilateral or fewer than half of them have aspect_ratio() > 1.0; with
\* auto_rotate off it never is.
C3_RerunRule ==
    pc \in {"rerun", "checked"} =>
        ((pc = "rerun") <=>
            /\ pre_processor_options.auto_rotate
            /\ \/ Len(textlines) = 0
               \/ 2 * WideCount(textlines) < Len(textlines))

\* C4: with rotate set, the remap of postprocess sends the rotated position of
\* every pixel of the image handed to rotate_right back to that pixel.
C4_RemapInvertsRotation ==
    (pc = "done" /\ pre_processor_options.rotate) => probe_pos = probe

\* C5: for an image with min(width, height) < 400 and an infer that returns a
\* mask of the size of the image it was given, a completed detect returns a
\* mask of the original width and height.
C5_MaskHasOriginalDims ==
    [][(/\ pc = "checked" /\ pc' = "done"
        /\ Min(image.width, image.height) < BorderTarget
        /\ mask.width = img.width /\ mask.height = img.height)
       => (mask'.width = image.width /\ mask'.height = image.height)]_vars

\* the mask is in the hands of the pipeline: returned by infer, or by detect
MaskHandedOver == pc \in {"inferred", "rerun", "checked", "done"}

\* C22: every Mask handed between pipeline stages has data.len() equal to
\* width * height, from infer through remove_border_mask and
\* rotate_left_mask, and postprocess never reads outside the mask buffer.
C22_MaskLenIsArea ==
    /\ MaskHandedOver => mask.len = mask.width * mask.height
    /\ pc \notin {"panic", "fault"}

\* ================================================= patch rearrangement engine
\* the f64 comparison a / b > num / den of non-negative integers
\* (x / 0 is +inf for x > 0 and NaN for x = 0)
QuotGt(a, b, num, den) == IF b = 0 THEN a > 0 ELSE a * den > num * b

\* shoud_rearrange without the swap to (short, long)
shoud_rearrange_noswap(im, tgt_size) ==
    /\ QuotGt(im.height, tgt_size, 5, 2)
    /\ QuotGt(im.height, im.width, 3, 1)

\* shoud_rearrange (det_arrange.rs 201-209)
shoud_rearrange(im, tgt_size) ==
    LET w == IF im.height < im.width THEN im.height ELSE im.width
        h == IF im.height < im.width THEN im.width ELSE im.height
    IN  /\ QuotGt(h, tgt_size, 5, 2)
        /\ QuotGt(h, w, 3, 1)

\* a band count that fills one target width instead of two
pw_num_of_single(w, tgt_size) == Max(tgt_size \div w, 1)

\* line 230: pw_num = floor(2.0 * tgt_size / w).max(2)
pw_num_of(w, tgt_size) == Max((2 * tgt_size) \div w, 2)

\* a band step that spreads h - ph over ph_num bands
ph_step_of_short(h, ph, ph_num) ==
    IF ph_num > 1 THEN (h - ph) \div ph_num ELSE 0

\* a band step rounded up
ph_step_of_ceil(h, ph, ph_num) ==
    IF ph_num > 1 THEN CeilDiv(h - ph, ph_num - 1) ELSE 0

\* lines 234-238: ph_step = ((h - ph) / (ph_num - 1)) as u32, or 0
ph_step_of(h, ph, ph_num) ==
    IF ph_num > 1 THEN (h - ph) \div (ph_num - 1) ELSE 0

\* det_rearrange_forward lines 218-242: the band geometry
Geometry(im, tgt_size) ==
    LET transpose == im.height < im.width
        w == IF transpose THEN im.height ELSE im.width
        h == IF transpose THEN im.width ELSE im.height
        pw_num == pw_num_of(w, tgt_size)
        ph == pw_num * w
        ph_num == CeilDiv(h, ph)
        ph_step == ph_step_of(h, ph, ph_num)
        p_num == CeilDiv(ph_num, pw_num)
        pad_num == p_num * pw_num - ph_num
    IN  [transpose |-> transpose, w |-> w, h |-> h, pw_num |-> pw_num,
         ph |-> ph, patch_size |-> ph, ph_num |-> ph_num, ph_step |-> ph_step,
         p_num |-> p_num, pad_num |-> pad_num,
         total_patches |-> ph_num + pad_num]

\* extract_patch (181-199) for band ii: rows [t, b) clamped to the image
extract_patch(g, ii) ==
    LET t == Min(ii * g.ph_step, g.h)
        b == Min(ii * g.ph_step + g.ph, g.h)
    IN  [t |-> t, b |-> b, width |-> g.w, height |-> b - t, pad |-> FALSE]

\* lines 258-276: the bands in index order, then pad_num blank bands shaped
\* like band 0
CollectedPatches(g) ==
    [k \in 1..g.total_patches |->
        IF k <= g.ph_num
        THEN extract_patch(g, k - 1)
        ELSE [extract_patch(g, 0) EXCEPT !.pad = TRUE]]

\* lines 253 and 271-273: rel_step = t / h with t = ii * ph_step, kept as t
CollectedRelSteps(g) == [k \in 1..g.total_patches |-> (k - 1) * g.ph_step]

\* square_pad_resize (6-43) on a composite patch of shape (h, w)
square_pad_resize(h, w, tgt_size) ==
    LET pad_w0 == IF w < h THEN h - w ELSE 0
        pad_h0 == IF w < h THEN 0 ELSE IF h < w THEN w - h ELSE 0
        h1 == IF w >= h /\ h < w THEN h + pad_h0 ELSE h
        pad_size == tgt_size - h1
        pad_h == IF pad_size > 0 THEN pad_h0 + pad_size ELSE pad_h0
        pad_w == IF pad_size > 0 THEN pad_w0 + pad_size ELSE pad_w0
    IN  [pad_h |-> pad_h, pad_w |-> pad_w,
         \* assert!(down_scale_ratio <= 1.0) with ratio = tgt_size / shape[0]
         assert_ok |-> tgt_size <= h]

\* patch2batches lines 106-117: composite patches 1..p_num pushed in order, a
\* new batch opened whenever the last one holds max_batch_size or more
RECURSIVE push_batches(_, _, _, _)
push_batches(k, p_num, max_batch_size, acc) ==
    IF k > p_num THEN acc
    ELSE LET opened == IF Len(acc[Len(acc)]) >= max_batch_size
                       THEN Append(acc, <<>>) ELSE acc
         IN  push_batches(k + 1, p_num, max_batch_size,
                 [opened EXCEPT ![Len(opened)] = Append(@, k)])

\* patch2batches opening a new batch only when the last one is over the cap
RECURSIVE push_batches_over(_, _, _, _)
push_batches_over(k, p_num, max_batch_size, acc) ==
    IF k > p_num THEN acc
    ELSE LET opened == IF Len(acc[Len(acc)]) > max_batch_size
                       THEN Append(acc, <<>>) ELSE acc
         IN  push_batches_over(k + 1, p_num, max_batch_size,
                 [opened EXCEPT ![Len(opened)] = Append(@, k)])

patch2batches_over(p_num, max_batch_size) ==
    push_batches_over(1, p_num, max_batch_size, << <<>> >>)

patch2batches(p_num, max_batch_size) ==
    push_batches(1, p_num, max_batch_size, << <<>> >>)

\* stack_vec_to_array4 (45-47) needs bands of one shape; rearrange_patches
\* (49-56) needs total_patches divisible by p_num
StackOk(pl, g) ==
    /\ \A k \in 1..Len(pl) :
          pl[k].height = pl[1].height /\ pl[k].width = pl[1].width
    /\ g.total_patches % g.p_num = 0

\* ---- the model output for one composite patch: size x size values, constant
\* on the region of each of the pw_num bands (bands lie side by side, or one
\* below the other when the image was transposed)
ValueAt(p, r, c) ==
    IF p.by_rows
    THEN p.slot[((r * Len(p.slot)) \div p.size) + 1]
    ELSE p.slot[((c * Len(p.slot)) \div p.size) + 1]

\* ArrayBase::permuted_axes([0, 2, 1])
permuted_axes(p) == [p EXCEPT !.by_rows = ~p.by_rows]

\* process_arrays (127-179) on one output: crop pad_size, scaled to its size
process_array(p, tgt_size, pad_size) ==
    IF pad_size > 0
    THEN [p EXCEPT !.size = p.size - RoundDiv(p.size * pad_size, tgt_size)]
    ELSE p

\* the flattened sequence of a sequence of sequences (flat_map, in order)
RECURSIVE Flatten(_)
Flatten(ss) == IF ss = <<>> THEN <<>> ELSE Head(ss) \o Flatten(Tail(ss))

\* ---- inputs of the engine
MaxBatch == 2
MaxSide == 40
SmallDims == {4, 6, 7, 20, 21, 26, 27, 33, 37, 49}
BigDims == {1000, 1200, 2000, 10000}
OutSizes == {4, 8}
ValueSet == {0, 1}
\* strips one pixel wide, upright and lying
ThinImages == {[width |-> 1, height |-> 11], [width |-> 11, height |-> 1]}

ArrInputs ==
    [img : [width : SmallDims, height : SmallDims], tgt_size : {8},
     max_batch_size : 0..MaxBatch, out_size : OutSizes]
    \cup
    [img : [width : BigDims, height : BigDims], tgt_size : {2048},
     max_batch_size : 0..MaxBatch, out_size : OutSizes]
    \cup
    [img : ThinImages, tgt_size : {4}, max_batch_size : {1}, out_size : {4}]

DetIdle ==
    /\ pc = "idle" /\ image = [width |-> 0, height |-> 0]
    /\ pre_processor_options = [invert |-> FALSE, gamma_correct |-> FALSE,
                                rotate |-> FALSE, auto_rotate |-> FALSE]
    /\ pass = 0 /\ infer_calls = 0 /\ img = NoImg /\ add_border = <<>>
    /\ textlines = <<>> /\ mask = NoMask /\ probe = <<>> /\ probe_pos = <<>>

InitArrange ==
    /\ apc = "start"
    /\ arr_in \in ArrInputs
    /\ ArrLocalsInit
    /\ DetIdle
    /\ QuadIdle
    /\ PostIdle
    /\ RollIdle
    /\ DbIdle
    /\ LoadIdle
    /\ RotIdle

\* DbNetDetector::infer line 120: match shoud_rearrange(&img, detect_size)
Decide ==
    /\ apc = "start"
    /\ geo' = [rearrange |-> shoud_rearrange(arr_in.img, arr_in.tgt_size)]
    /\ apc' = IF geo'.rearrange THEN "geometry" ELSE "single"
    /\ UNCHANGED <<arr_in, par_done, patch_list, rel_step_list, batches,
                   in_flight, call_log, outputs, patch_lst, tgtmap, contrib,
                   loop_ii, loop_jj, placed, detVars, quadVars, postVars,
                   rollVars, dbVars, loadVars, rotVars>>

\* det_rearrange_forward lines 218-245
ComputeGeometry ==
    /\ apc = "geometry"
    /\ geo' = Geometry(arr_in.img, arr_in.tgt_size) @@ geo
    /\ par_done' = {}
    /\ apc' = "extract"
    /\ UNCHANGED <<arr_in, patch_list, rel_step_list, batches, in_flight,
                   call_log, outputs, patch_lst, tgtmap, contrib, loop_ii,
                   loop_jj, placed, detVars, quadVars, postVars,
                   rollVars, dbVars, loadVars, rotVars>>

\* line 247: the range 0..ph_num handed to the parallel workers
BandIds == IF apc = "extract" THEN 0..(geo.ph_num - 1) ELSE {}

\* lines 247-255: one parallel worker extracts band ii
ExtractBand(ii) ==
    /\ apc = "extract"
    /\ ii \in BandIds
    /\ ii \notin par_done
    /\ par_done' = par_done \cup {ii}
    /\ UNCHANGED <<apc, arr_in, geo, patch_list, rel_step_list, batches,
                   in_flight, call_log, outputs, patch_lst, tgtmap, contrib,
                   loop_ii, loop_jj, placed, detVars, quadVars, postVars,
                   rollVars, dbVars, loadVars, rotVars>>

\* lines 256-276: collect() keeps index order; then the blank padding bands
CollectBands ==
    /\ apc = "extract"
    /\ par_done = 0..(geo.ph_num - 1)
    /\ patch_list' = CollectedPatches(geo)
    /\ rel_step_list' = CollectedRelSteps(geo)
    /\ apc' = "batch"
    /\ UNCHANGED <<arr_in, geo, par_done, batches, in_flight, call_log,
                   outputs, patch_lst, tgtmap, contrib, loop_ii, loop_jj,
                   placed, detVars, quadVars, postVars,
                   rollVars, dbVars, loadVars, rotVars>>

\* lines 278-285: patch2batches; its composites are patch_size x patch_size
Patch2Batches ==
    /\ apc = "batch"
    /\ LET sq == square_pad_resize(geo.ph, geo.pw_num * geo.w, arr_in.tgt_size)
       IN  IF StackOk(patch_list, geo) /\ sq.assert_ok /\ sq.pad_h = sq.pad_w
           THEN /\ batches' = patch2batches(geo.p_num, arr_in.max_batch_size)
                /\ geo' = [pad_size |-> sq.pad_h] @@ geo
                /\ apc' = "build"
           ELSE /\ apc' = "panic"
                /\ UNCHANGED <<batches, geo>>
    /\ par_done' = {}
    /\ UNCHANGED <<arr_in, patch_list, rel_step_list, in_flight, call_log,
                   outputs, patch_lst, tgtmap, contrib, loop_ii, loop_jj,
                   placed, detVars, quadVars, postVars,
                   rollVars, dbVars, loadVars, rotVars>>

\* lines 287-294: one parallel worker stacks batch k into an Array4;
\* vec_array3_to_array4 (332-339) panics on an empty batch
BuildBatch(k) ==
    /\ apc = "build"
    /\ k \in 1..Len(batches)
    /\ k \notin par_done
    /\ IF batches[k] = <<>>
       THEN apc' = "panic" /\ UNCHANGED par_done
       ELSE par_done' = par_done \cup {k} /\ UNCHANGED apc
    /\ UNCHANGED <<arr_in, geo, patch_list, rel_step_list, batches, in_flight,
                   call_log, outputs, patch_lst, tgtmap, contrib, loop_ii,
                   loop_jj, placed, detVars, quadVars, postVars,
                   rollVars, dbVars, loadVars, rotVars>>

\* line 294: collect() ends the parallel phase
BuildDone ==
    /\ apc = "build"
    /\ par_done = 1..Len(batches)
    /\ apc' = "infer"
    /\ outputs' = <<>>
    /\ UNCHANGED <<arr_in, geo, par_done, patch_list, rel_step_list, batches,
                   in_flight, call_log, patch_lst, tgtmap, contrib, loop_ii,
                   loop_jj, placed, detVars, quadVars, postVars,
                   rollVars, dbVars, loadVars, rotVars>>

\* lines 296-299: into_iter().map(..) hands batch k to the callback only after
\* every earlier call has returned
MayCallAnyPending(k, log, flying) == \A i \in 1..Len(log) : log[i] # k

MayCall(k, log, flying) == flying = {} /\ k = Len(log) + 1

\* what the network may answer for a batch: one out_size x out_size map per
\* composite patch, holding one value per band
BatchOutputs(batch, g, out_size) ==
    [1..Len(batch) ->
        [size : {out_size}, slot : [1..g.pw_num -> ValueSet],
         by_rows : {g.transpose}]]

\* line 298: dbnet_batch_forward(v) starts on batch k
InferCall(k) ==
    /\ apc = "infer"
    /\ k \in 1..Len(batches)
    /\ MayCall(k, call_log, in_flight)
    /\ in_flight' = in_flight \cup {k}
    /\ call_log' = Append(call_log, k)
    /\ UNCHANGED <<apc, arr_in, geo, par_done, patch_list, rel_step_list,
                   batches, outputs, patch_lst, tgtmap, contrib, loop_ii,
                   loop_jj, placed, detVars, quadVars, postVars,
                   rollVars, dbVars, loadVars, rotVars>>

\* line 298: the call on batch k returns its maps
InferReturn(k) ==
    /\ apc = "infer"
    /\ k \in in_flight
    /\ \E res \in BatchOutputs(batches[k], geo, arr_in.out_size) :
          outputs' = Append(outputs, res)
    /\ in_flight' = in_flight \ {k}
    /\ UNCHANGED <<apc, arr_in, geo, par_done, patch_list, rel_step_list,
                   batches, call_log, patch_lst, tgtmap, contrib, loop_ii,
                   loop_jj, placed, detVars, quadVars, postVars,
                   rollVars, dbVars, loadVars, rotVars>>

\* line 299: collect() ends the sequential phase
InferDone ==
    /\ apc = "infer"
    /\ in_flight = {}
    /\ Len(call_log) = Len(batches)
    /\ apc' = "unpad"
    /\ par_done' = {}
    /\ UNCHANGED <<arr_in, geo, patch_list, rel_step_list, batches, in_flight,
                   call_log, outputs, patch_lst, tgtmap, contrib, loop_ii,
                   loop_jj, placed, detVars, quadVars, postVars,
                   rollVars, dbVars, loadVars, rotVars>>

\* lines 300-301: one parallel worker runs process_arrays on batch result k
Unpad(k) ==
    /\ apc = "unpad"
    /\ k \in 1..Len(outputs)
    /\ k \notin par_done
    /\ par_done' = par_done \cup {k}
    /\ UNCHANGED <<apc, arr_in, geo, patch_list, rel_step_list, batches,
                   in_flight, call_log, outputs, patch_lst, tgtmap, contrib,
                   loop_ii, loop_jj, placed, detVars, quadVars, postVars,
                   rollVars, dbVars, loadVars, rotVars>>

\* unrearrange lines 353-359 on the outputs of one geometry
UnrearrangeGeometry(lst, g) ==
    LET psize == lst[1].size
        step == (g.ph_step * psize) \div g.patch_size
        pw == psize \div g.pw_num
        H == (pw * g.h) \div g.w
    IN  [psize |-> psize, step |-> step, pw |-> pw, H |-> H,
         num_patches |-> Len(lst) * g.pw_num - g.pad_num]

\* lines 301-302 and 353-359: flat_map/unzip keep batch order; unrearrange
\* starts with a zeroed map of H rows and pw columns
StartUnrearrange ==
    /\ apc = "unpad"
    /\ par_done = 1..Len(outputs)
    /\ LET lst == Flatten([k \in 1..Len(outputs) |->
                     [i \in 1..Len(outputs[k]) |->
                        process_array(outputs[k][i], arr_in.tgt_size,
                                      geo.pad_size)]])
       IN  IF lst = <<>>
           THEN /\ apc' = "unrearrange_panic"
                /\ UNCHANGED <<patch_lst, geo, tgtmap, contrib>>
           ELSE LET u == UnrearrangeGeometry(lst, geo)
                    cells == (0..(u.H - 1)) \X (0..(u.pw - 1))
                IN  /\ patch_lst' = lst
                    /\ geo' = u @@ geo
                    /\ tgtmap' = [x \in cells |-> [num |-> 0, exp |-> 0]]
                    /\ contrib' = [x \in cells |-> <<>>]
                    /\ apc' = "place"
    /\ loop_ii' = 0
    /\ loop_jj' = 0
    /\ placed' = <<>>
    /\ UNCHANGED <<arr_in, par_done, patch_list, rel_step_list, batches,
                   in_flight, call_log, outputs, detVars, quadVars, postVars,
                   rollVars, dbVars, loadVars, rotVars>>

\* line 370: t = round(rel_t * h) with rel_t = rel / height
SlotTop(rel, g) == RoundDiv(rel * g.H, g.h)

\* lines 388-390: the inner loop is left after the last real slot
SlotBreak_late(pidx, g) == pidx >= g.num_patches

SlotBreak(pidx, g) == pidx >= g.num_patches - 1

\* lines 375-379: *a += b on rows t..b of the map
AddSlot(map, p, t, b, l) ==
    [x \in DOMAIN map |->
        IF t <= x[1] /\ x[1] < b
        THEN [num |-> map[x].num + ValueAt(p, x[1] - t, l + x[2]) * 2^(map[x].exp),
              exp |-> map[x].exp]
        ELSE map[x]]

\* lines 381-387: x / 2.0 on rows t..end of the map
HalveRows(map, t, end) ==
    [x \in DOMAIN map |->
        IF t <= x[1] /\ x[1] < end
        THEN [num |-> map[x].num, exp |-> map[x].exp + 1]
        ELSE map[x]]

\* one pass of the loop body, lines 366-391, for slot (loop_ii, loop_jj)
PlaceSlot ==
    /\ apc = "place"
    /\ loop_ii < Len(patch_lst)
    /\ LET g == geo
           p0 == patch_lst[loop_ii + 1]
           p == IF g.transpose THEN permuted_axes(p0) ELSE p0
           pidx == loop_ii * g.pw_num + loop_jj
           t == SlotTop(rel_step_list[pidx + 1], g)
           b == Min(g.H, t + g.psize)
           l == loop_jj * g.pw
           end == t + g.psize - g.step
           add_ok == /\ pidx + 1 <= Len(rel_step_list)
                     /\ t <= b
                     /\ b - t <= p.size
                     /\ l + g.pw <= p.size
           halve_ok == pidx = 0 \/ (g.step <= g.psize /\ end <= g.H)
           added == AddSlot(tgtmap, p, t, b, l)
       IN  /\ IF ~add_ok
              THEN /\ apc' = "unrearrange_panic"
                   /\ UNCHANGED <<tgtmap, contrib, placed, loop_ii, loop_jj>>
              ELSE /\ placed' = Append(placed, pidx)
                   /\ contrib' =
                        [x \in DOMAIN contrib |->
                            IF t <= x[1] /\ x[1] < b
                            THEN Append(contrib[x], ValueAt(p, x[1] - t, l + x[2]))
                            ELSE contrib[x]]
                   /\ IF ~halve_ok
                      THEN /\ apc' = "unrearrange_panic"
                           /\ tgtmap' = added
                           /\ UNCHANGED <<loop_ii, loop_jj>>
                      ELSE /\ tgtmap' = IF pidx > 0 THEN HalveRows(added, t, end)
                                        ELSE added
                           /\ apc' = "place"
                           /\ IF SlotBreak(pidx, g) \/ loop_jj + 1 >= g.pw_num
                              THEN loop_ii' = loop_ii + 1 /\ loop_jj' = 0
                              ELSE loop_jj' = loop_jj + 1 /\ UNCHANGED loop_ii
    /\ UNCHANGED <<arr_in, geo, par_done, patch_list, rel_step_list, batches,
                   in_flight, call_log, outputs, patch_lst, detVars, quadVars, postVars,
                   rollVars, dbVars, loadVars, rotVars>>

\* permuted_axes([0, 2, 1]) on the map: cell (r, c) moves to (c, r)
permuted_map(map) ==
    [x \in {<<y[2], y[1]>> : y \in DOMAIN map} |-> map[<<x[2], x[1]>>]]

\* lines 393-398: the map is transposed back when the image was transposed
FinishUnrearrange ==
    /\ apc = "place"
    /\ loop_ii >= Len(patch_lst)
    /\ apc' = "stitched"
    /\ tgtmap' = IF geo.transpose THEN permuted_map(tgtmap) ELSE tgtmap
    /\ contrib' = IF geo.transpose THEN permuted_map(contrib) ELSE contrib
    /\ UNCHANGED <<arr_in, geo, par_done, patch_list, rel_step_list, batches,
                   in_flight, call_log, outputs, patch_lst, loop_ii, loop_jj,
                   placed, detVars, quadVars, postVars,
                   rollVars, dbVars, loadVars, rotVars>>

NextArrange ==
    \/ Decide
    \/ ComputeGeometry
    \/ \E ii \in BandIds : ExtractBand(ii)
    \/ CollectBands
    \/ Patch2Batches
    \/ \E k \in 1..Len(batches) : BuildBatch(k)
    \/ BuildDone
    \/ \E k \in 1..Len(batches) : InferCall(k)
    \/ \E k \in 1..Len(batches) : InferReturn(k)
    \/ InferDone
    \/ \E k \in 1..Len(outputs) : Unpad(k)
    \/ StartUnrearrange
    \/ PlaceSlot
    \/ FinishUnrearrange

SpecArrange == InitArrange /\ [][NextArrange]_vars /\ WF_vars(NextArrange)

\* ------------------------------------------------ claims on the rearrangement
LongSide(im) == Max(im.width, im.height)
ShortSide(im) == Min(im.width, im.height)
Swapped(im) == [width |-> im.height, height |-> im.width]

\* C6: shoud_rearrange(img, target) is true exactly when long/target > 2.5 and
\* long/short > 3.0 with long = max(width, height), short = min(width, height);
\* the answer is the same for the image with width and height swapped,
\* 10000x2000 at target 2048 gives true and 1000x1200 gives false.
C6_RearrangeRule ==
    /\ apc # "start" =>
          ((apc # "single") <=>
              (/\ 2 * LongSide(arr_in.img) > 5 * arr_in.tgt_size
               /\ LongSide(arr_in.img) > 3 * ShortSide(arr_in.img)))
    /\ shoud_rearrange(arr_in.img, arr_in.tgt_size)
          = shoud_rearrange(Swapped(arr_in.img), arr_in.tgt_size)
    /\ shoud_rearrange([width |-> 10000, height |-> 2000], 2048)
    /\ shoud_rearrange([width |-> 2000, height |-> 10000], 2048)
    /\ ~shoud_rearrange([width |-> 1000, height |-> 1200], 2048)
    /\ ~shoud_rearrange([width |-> 1200, height |-> 1000], 2048)

C6_Witness ==
    /\ apc = "geometry"
    /\ geo.rearrange
    /\ arr_in.img = [width |-> 10000, height |-> 2000]
    /\ arr_in.tgt_size = 2048

\* C7: the ph_num bands [i*ph_step, i*ph_step + patch_height) cover the whole
\* (transposed-if-needed) image: the first band starts at row 0, the last band
\* ends at row height, and every row 0..height-1 lies in at least one band.
C7_BandsCoverImage ==
    patch_list # <<>> =>
        /\ patch_list[1].t = 0
        /\ patch_list[geo.ph_num].b = geo.h
        /\ \A r \in 0..(geo.h - 1) :
              \E k \in 1..geo.ph_num :
                  patch_list[k].t <= r /\ r < patch_list[k].b

SeqMin(vals) ==
    CHOOSE v \in {vals[i] : i \in 1..Len(vals)} :
        \A i \in 1..Len(vals) : v <= vals[i]

SeqMax(vals) ==
    CHOOSE v \in {vals[i] : i \in 1..Len(vals)} :
        \A i \in 1..Len(vals) : v >= vals[i]

\* C8: in the stitched map every cell that received a band contribution holds
\* a value between the minimum and the maximum of the values placed on it: a
\* cell written once keeps that value, a cell written twice holds their mean.
C8_AveragingWithinRange ==
    apc = "stitched" =>
        \A x \in DOMAIN tgtmap :
            contrib[x] # <<>> =>
                LET c == tgtmap[x]
                    vals == contrib[x]
                IN  /\ SeqMin(vals) * 2^(c.exp) <= c.num
                    /\ c.num <= SeqMax(vals) * 2^(c.exp)
                    /\ Len(vals) = 1 => c.num = vals[1] * 2^(c.exp)
                    /\ Len(vals) = 2 =>
                          2 * c.num = (vals[1] + vals[2]) * 2^(c.exp)

\* C9: unrearrange places the band slots in increasing slot index
\* pidx = ii*pw_num + jj, each of the ph_num real slots exactly once, and stops
\* after the last real slot: no padding slot (pidx >= ph_num) is ever added to
\* the map or halves rows of it.
C9_SlotsPlacedInOrder ==
    /\ \A i \in 1..Len(placed) : placed[i] = i - 1 /\ placed[i] < geo.ph_num
    /\ apc = "stitched" => Len(placed) = geo.ph_num

C9_Witness ==
    /\ apc = "stitched"
    /\ geo.pad_num > 0
    /\ geo.p_num > 1
    /\ placed = [i \in 1..geo.ph_num |-> i - 1]

\* C10: the inference callback never runs concurrently: it is called once per
\* batch, in batch order, each call returns before the next one starts, and
\* no call is in flight while the parallel phases run.
C10_CallbackSequential ==
    /\ Cardinality(in_flight) <= 1
    /\ \A i \in 1..Len(call_log) : call_log[i] = i
    /\ Len(call_log) <= Len(batches)
    /\ in_flight \subseteq {Len(call_log)}
    /\ Len(outputs) = Len(call_log) - Cardinality(in_flight)
    /\ in_flight # {} => apc = "infer"
    /\ apc \in {"unpad", "place", "stitched"} => Len(call_log) = Len(batches)

C10_Witness ==
    /\ apc = "stitched"
    /\ Len(batches) >= 2
    /\ call_log = [i \in 1..Len(batches) |-> i]
    /\ Len(outputs) = Len(batches)

\* C11: for max_batch_size >= 1 patch2batches splits the p_num composite
\* patches, in their order, into consecutive batches: every batch is non-empty
\* and holds at most max_batch_size patches, every batch but the last holds
\* exactly max_batch_size, the batches concatenated are the patch sequence,
\* and the callback is called ceil(p_num / max_batch_size) times.
C11_BatchesPartitionPatches ==
    (batches # <<>> /\ arr_in.max_batch_size >= 1) =>
        /\ \A k \in 1..Len(batches) :
              /\ Len(batches[k]) >= 1
              /\ Len(batches[k]) <= arr_in.max_batch_size
              /\ k < Len(batches) => Len(batches[k]) = arr_in.max_batch_size
        /\ Flatten(batches) = [i \in 1..geo.p_num |-> i]
        /\ Len(batches) = CeilDiv(geo.p_num, arr_in.max_batch_size)
        /\ apc \in {"unpad", "place", "stitched"} =>
              Len(call_log) = CeilDiv(geo.p_num, arr_in.max_batch_size)

C11_Witness ==
    /\ apc = "stitched"
    /\ arr_in.max_batch_size = 2
    /\ geo.p_num = 3
    /\ batches = << <<1, 2>>, <<3>> >>
    /\ Len(call_log) = 2

\* C12: composite patches are downscaled, never upscaled: for every short side
\* w >= 1 and target t >= 1 patch_height = max(2, floor(2t/w)) * w is at least
\* t, so the assertion down_scale_ratio <= 1.0 of square_pad_resize holds, the
\* pad size is 0 and pad_h = pad_w, and det_rearrange_forward never aborts on
\* them.
C12_NeverUpscaled ==
    /\ apc = "start" =>
          \A w \in 1..MaxSide : \A t \in 1..MaxSide :
              LET ph == pw_num_of(w, t) * w
                  sq == square_pad_resize(ph, ph, t)
              IN  ph >= t /\ sq.assert_ok /\ sq.pad_h = 0 /\ sq.pad_w = 0
    /\ apc \in {"extract", "batch"} =>
          LET sq == square_pad_resize(geo.ph, geo.pw_num * geo.w,
                                      arr_in.tgt_size)
          IN  /\ geo.ph = pw_num_of(geo.w, arr_in.tgt_size) * geo.w
              /\ geo.ph >= arr_in.tgt_size
              /\ sq.assert_ok /\ sq.pad_h = 0 /\ sq.pad_w = 0
    /\ apc \in {"build", "infer", "unpad", "place", "stitched"} =>
          geo.pad_size = 0
    /\ apc = "panic" => arr_in.max_batch_size = 0

C12_Witness ==
    /\ apc = "build"
    /\ geo.pad_size = 0
    /\ geo.ph > arr_in.tgt_size
    /\ arr_in.max_batch_size >= 1

\* ===================================================== building Quadrilaterals
GridCoords == {0, 1, 2}
GridPoints == GridCoords \X GridCoords
Perms4 == {p \in [1..4 -> 1..4] : \A i, j \in 1..4 : i # j => p[i] # p[j]}

\* the corners of an axis-aligned rectangle: top-left, top-right, bottom-right,
\* bottom-left (y grows downwards)
RectCorners(x0, y0, W, H) ==
    <<<<x0, y0>>, <<x0 + W, y0>>, <<x0 + W, y0 + H>>, <<x0, y0 + H>>>>

RectSet ==
    {RectCorners(x0, y0, W, H) :
        x0 \in {0, 169}, y0 \in {0, 6}, W \in {1, 2, 10, 38},
        H \in {1, 2, 4, 10, 158}}

\* four distinct grid points in any order, and rectangles in any corner order
QuadPointInputs ==
    {pts \in [1..4 -> GridPoints] : \A i, j \in 1..4 : i # j => pts[i] # pts[j]}
    \cup {[i \in 1..4 |-> c[p[i]]] : c \in RectSet, p \in Perms4}

InitQuad ==
    /\ qpc = "input"
    /\ quad_in \in [points : QuadPointInputs, score : {90}]
    /\ quad = <<>>
    /\ resorted = <<>>
    /\ reordered = <<>>
    /\ DetIdle
    /\ ArrIdle
    /\ PostIdle
    /\ RollIdle
    /\ DbIdle
    /\ LoadIdle
    /\ RotIdle

\* Quadrilateral::new(points, score)
QuadBuild ==
    /\ qpc = "input"
    /\ quad' = QuadNew(quad_in.points, quad_in.score)
    /\ qpc' = "built"
    /\ UNCHANGED <<quad_in, resorted, reordered, detVars, arrVars, postVars,
                   rollVars, dbVars, loadVars, rotVars>>

\* Quadrilateral::new(quad.pts().to_vec(), quad.score())
QuadRebuild ==
    /\ qpc = "built"
    /\ resorted' = QuadNew(quad.pts, quad.score)
    /\ qpc' = "rebuilt"
    /\ UNCHANGED <<quad_in, quad, reordered, detVars, arrVars, postVars,
                   rollVars, dbVars, loadVars, rotVars>>

\* the exchange of the first two points and the cyclic shift: they generate
\* all 24 orders, and the inputs hold every order of every point set
Reorders == {<<2, 1, 3, 4>>, <<2, 3, 4, 1>>}

\* Quadrilateral::new on the same four points handed over in another order
QuadReorder ==
    /\ qpc = "built"
    /\ \E p \in Reorders :
          reordered' = QuadNew([i \in 1..4 |-> quad_in.points[p[i]]],
                               quad_in.score)
    /\ qpc' = "reordered"
    /\ UNCHANGED <<quad_in, quad, resorted, detVars, arrVars, postVars,
                   rollVars, dbVars, loadVars, rotVars>>

NextQuad == QuadBuild \/ QuadRebuild \/ QuadReorder

SpecQuad == InitQuad /\ [][NextQuad]_vars /\ WF_vars(NextQuad)

\* ---- claims on Quadrilateral
XMin(pts) == Min(Min(pts[1][1], pts[2][1]), Min(pts[3][1], pts[4][1]))
XMax(pts) == Max(Max(pts[1][1], pts[2][1]), Max(pts[3][1], pts[4][1]))
YMin(pts) == Min(Min(pts[1][2], pts[2][2]), Min(pts[3][2], pts[4][2]))
YMax(pts) == Max(Max(pts[1][2], pts[2][2]), Max(pts[3][2], pts[4][2]))
RectW(pts) == XMax(pts) - XMin(pts)
RectH(pts) == YMax(pts) - YMin(pts)

\* the four points are the corners of an axis-aligned rectangle, in any order
IsRect(pts) ==
    /\ RectW(pts) > 0
    /\ RectH(pts) > 0
    /\ {pts[i] : i \in 1..4}
          = {<<XMin(pts), YMin(pts)>>, <<XMax(pts), YMin(pts)>>,
             <<XMax(pts), YMax(pts)>>, <<XMin(pts), YMax(pts)>>}

IsPermutation(a, b) == \E p \in Perms4 : a = [i \in 1..4 |-> b[p[i]]]

\* C15: Quadrilateral::new(pts, s).pts() has exactly 4 points that are a
\* permutation of the input, and building a Quadrilateral again from pts()
\* gives the same point order and the same vertical flag, also for squares,
\* diamonds and other inputs with tied lengths or coordinates.
C15_SortIdempotent ==
    qpc = "rebuilt" =>
        /\ Len(quad.pts) = 4
        /\ IsPermutation(quad.pts, quad_in.points)
        /\ resorted.pts = quad.pts
        /\ resorted.vertical = quad.vertical

\* C16: for every axis-aligned rectangle with W # H, given in any corner
\* order, sort_pnts returns [top-left, top-right, bottom-right, bottom-left]
\* and the rectangle is vertical exactly when H > W.
C16_RectangleOrder ==
    (qpc # "input" /\ IsRect(quad_in.points)
        /\ RectW(quad_in.points) # RectH(quad_in.points)) =>
        /\ quad.pts = RectCorners(XMin(quad_in.points), YMin(quad_in.points),
                                  RectW(quad_in.points), RectH(quad_in.points))
        /\ quad.vertical <=> RectH(quad_in.points) > RectW(quad_in.points)

C16_Witness ==
    /\ qpc = "built"
    /\ quad_in.points = <<<<169, 6>>, <<207, 6>>, <<169, 164>>, <<207, 164>>>>
    /\ quad.pts = <<<<169, 6>>, <<207, 6>>, <<207, 164>>, <<169, 164>>>>
    /\ quad.vertical

\* C17: for every axis-aligned rectangle of width W and height H, in any
\* corner order, structure() is the integer midpoints of the top, bottom,
\* right and left edge, the horizontal midline has length W and the vertical
\* one length H, so aspect_ratio() = W/H and it is > 1.0 exactly when W > H.
C17_AspectRatioOfRectangle ==
    (qpc # "input" /\ IsRect(quad_in.points)) =>
        LET x0 == XMin(quad_in.points)
            y0 == YMin(quad_in.points)
            W == RectW(quad_in.points)
            H == RectH(quad_in.points)
            st == structure(quad)
        IN  /\ st = <<<<x0 + (W \div 2), y0>>, <<x0 + (W \div 2), y0 + H>>,
                      <<x0 + W, y0 + (H \div 2)>>, <<x0, y0 + (H \div 2)>>>>
            /\ NormSq(<<st[4][1] - st[3][1], st[4][2] - st[3][2]>>) = W * W
            /\ NormSq(<<st[2][1] - st[1][1], st[2][2] - st[1][2]>>) = H * H
            /\ AspectRatioGtOne(quad) <=> W > H

C17_Witness ==
    /\ qpc = "built"
    /\ quad_in.points = <<<<0, 0>>, <<10, 0>>, <<10, 4>>, <<0, 4>>>>
    /\ structure(quad) = <<<<5, 0>>, <<5, 4>>, <<10, 2>>, <<0, 2>>>>
    /\ AspectRatioGtOne(quad)

\* C20: an error of infer is propagated and never retried: detect returns the
\* error on the pass it occurred (first pass or rotation retry), no border
\* removal or rotate-back has produced a result, and infer is not called
\* again.
C20_InferErrorPropagated ==
    /\ [](pc = "error" =>
            /\ infer_calls = pass
            /\ textlines = <<>>
            /\ mask = NoMask)
    /\ [][pc # "error"]_vars

C20_Witness == pc = "error" /\ pass = 2 /\ infer_calls = 2

\* ===================================================================
\* The post-processing of DbNetDetector::infer: SegDetectorRepresenter's
\* boxes_from_bitmap (util/src/dbnet.rs), then filter_boxes_and_adjust and
\* the construction of the Quadrilaterals (modules/detector/dbnet/src/lib.rs
\* and its older copy modules/dbnet/src/lib.rs).
\* ===================================================================

\* the longest contour list enumerated
MaxContours == 3

\* SegDetectorRepresenter { min_size: 3.0, max_candidates: 1000, .. }
min_size == 3
max_candidates == 1000

\* get_mini_boxes lines 115-141 on the four corners box_points yields: the
\* corners sorted by x, the upper of the two left ones first, then the upper
\* and the lower right one, then the lower left one
get_mini_boxes(corners) ==
    Bind(StableSort(corners, [i \in 1..4 |-> corners[i][1]]), LAMBDA pv :
      LET index_1 == IF pv[2][2] > pv[1][2] THEN 1 ELSE 2
          index_4 == IF pv[2][2] > pv[1][2] THEN 2 ELSE 1
          index_2 == IF pv[4][2] > pv[3][2] THEN 3 ELSE 4
          index_3 == IF pv[4][2] > pv[3][2] THEN 4 ELSE 3
      IN  <<pv[index_1], pv[index_2], pv[index_3], pv[index_4]>>)

\* What OpenCV and the offsetting library report for one contour: the short
\* side of its minimum-area rectangle (sside), its mean probability in
\* percent (score), and the corners and the short side of the minimum-area
\* rectangle of the offset polygon (rect, usside).  Coordinates are even, so
\* that the f32 scaling below is exact for the destination sizes enumerated.
ContourPool ==
    <<[sside |-> 6, score |-> 90, usside |-> 8,
       rect |-> RectCorners(2, 2, 20, 8)],
      [sside |-> 2, score |-> 96, usside |-> 6,
       rect |-> <<<<16, 20>>, <<4, 14>>, <<16, 14>>, <<4, 20>>>>],
      [sside |-> 6, score |-> 50, usside |-> 8,
       rect |-> RectCorners(6, 24, 10, 8)],
      [sside |-> 3, score |-> 80, usside |-> 4,
       rect |-> RectCorners(20, 30, 8, 4)],
      [sside |-> 4, score |-> 84, usside |-> 6,
       rect |-> RectCorners(28, 2, 6, 6)],
      [sside |-> 10, score |-> 88, usside |-> 10,
       rect |-> <<<<20, 16>>, <<12, 22>>, <<0, 6>>, <<8, 0>>>>],
      [sside |-> 6, score |-> 92, usside |-> 8,
       rect |-> RectCorners(10, 30, 16, 8)]>>

\* the sequences of distinct contours of at most MaxContours elements
RECURSIVE ContourSeqs(_)
ContourSeqs(n) ==
    IF n = 0 THEN {<<>>}
    ELSE LET shorter == ContourSeqs(n - 1)
         IN  shorter \cup
             {Append(cs, c) : cs \in {x \in shorter : Len(x) = n - 1},
                              c \in 1..Len(ContourPool)}

DistinctContourSeqs ==
    {cs \in ContourSeqs(MaxContours) :
        \A i, j \in 1..Len(cs) : i # j => cs[i] # cs[j]}

\* the inputs of one post-processing run: which copy of infer runs, whether
\* find_contours_from_ndarray failed, the contours it found, box_thresh in
\* percent, the bitmap and destination sizes and the coordinate ratio
PostInputs ==
    {[crate |-> m, contours_ok |-> ok, contours |-> cs, box_thresh |-> bt,
      width |-> 40, height |-> 40, dest_width |-> d, dest_height |-> d,
      ratio |-> r] :
        m \in {"modules/detector/dbnet", "modules/dbnet"},
        ok \in BOOLEAN,
        cs \in DistinctContourSeqs,
        bt \in {30, 70},
        d \in {20, 40},
        r \in {[num |-> 1, den |-> 1], [num |-> 2, den |-> 1]}}

\* resize_aspect_ratio (imageproc.rs 10-51) with mag_ratio 1.0: the ratio
\* square_size / max(height, width) as a fraction, the rounded target size
\* and the size padded to a multiple of MULT = 256
resize_aspect_ratio(im, square_size) ==
    LET longest == Max(im.height, im.width)
        target_h == RoundDiv(im.height * square_size, longest)
        target_w == RoundDiv(im.width * square_size, longest)
        pad_h == IF target_h % 256 # 0 THEN 256 - (target_h % 256) ELSE 0
        pad_w == IF target_w % 256 # 0 THEN 256 - (target_w % 256) ELSE 0
    IN  [ratio |-> [num |-> square_size, den |-> longest],
         target_w |-> target_w, target_h |-> target_h,
         width |-> target_w + pad_w, height |-> target_h + pad_h,
         pad_w |-> pad_w, pad_h |-> pad_h]

\* infer, lib.rs 119-156: the shape handed to det.call and the ratio handed
\* to filter_boxes_and_adjust, on the rearranged and on the single-resize
\* path
InferShape(im, detect_size) ==
    IF shoud_rearrange(im, detect_size)
    THEN [dest_width |-> im.width, dest_height |-> im.height,
          ratio |-> [num |-> 1, den |-> 1], rearranged |-> TRUE]
    ELSE LET resized == resize_aspect_ratio(im, detect_size)
         IN  [dest_width |-> resized.width, dest_height |-> resized.height,
              ratio |-> [num |-> resized.ratio.den, den |-> resized.ratio.num],
              rearranged |-> FALSE]

\* the images handed to infer; their ratios are powers of two or the path
\* is the rearranged one, so that the f64 products below are exact
InferImages ==
    {[width |-> 1024, height |-> 700], [width |-> 700, height |-> 1024],
     [width |-> 1024, height |-> 1024], [width |-> 4096, height |-> 2048],
     [width |-> 1000, height |-> 10000], [width |-> 10000, height |-> 1000]}

\* the runs of infer on those images at detect_size 2048
InferInputs ==
    {[crate |-> "modules/detector/dbnet", contours_ok |-> TRUE,
      contours |-> cs, box_thresh |-> 70, width |-> 40, height |-> 40,
      dest_width |-> InferShape(im, 2048).dest_width,
      dest_height |-> InferShape(im, 2048).dest_height,
      ratio |-> InferShape(im, 2048).ratio,
      img |-> im, rearranged |-> InferShape(im, 2048).rearranged] :
        im \in InferImages,
        cs \in {x \in DistinctContourSeqs : Len(x) <= 2}}

InitPost ==
    /\ ppc = "start"
    /\ post_in \in {i \in PostInputs : ~i.contours_ok => i.contours = <<>>}
                   \cup InferInputs
    /\ PostLocalsInit
    /\ DetIdle
    /\ ArrIdle
    /\ QuadIdle
    /\ RollIdle
    /\ DbIdle
    /\ LoadIdle
    /\ RotIdle

ZeroBox == <<<<0, 0>>, <<0, 0>>, <<0, 0>>, <<0, 0>>>>

\* boxes_from_bitmap lines 212-219: a failure of the contour extraction
\* returns (None, None); otherwise boxes and scores start as zeros
BitmapStart ==
    /\ ppc = "start"
    /\ IF ~post_in.contours_ok
       THEN /\ ppc' = "none"
            /\ UNCHANGED <<boxes, scores>>
       ELSE LET num_contours == Min(Len(post_in.contours), max_candidates)
            IN  /\ boxes' = [i \in 1..num_contours |-> ZeroBox]
                /\ scores' = [i \in 1..num_contours |-> 0]
                /\ ppc' = "loop"
    /\ UNCHANGED <<post_in, index, polys, quadrilateral, detVars, arrVars,
                   quadVars, rollVars, dbVars, loadVars,
                   rotVars>>

\* no candidate is rejected for its size
SizeRejected_never(sside) == FALSE

\* boxes_from_bitmap lines 223-225: `if sside < self.min_size { continue }`
SizeRejected(sside) == sside < min_size

\* boxes_from_bitmap lines 242-257: (v / width * dest).round().clamp(0, dest)
ScaleCoord(v, size, dest) == Max(0, Min(RoundDiv(v * dest, size), dest))

ScaleBox(box_, in) ==
    [i \in 1..4 |-> <<ScaleCoord(box_[i][1], in.width, in.dest_width),
                      ScaleCoord(box_[i][2], in.height, in.dest_height)>>]

\* boxes_from_bitmap lines 259-265: the index, from 0, of the first row of
\* the least x + y (Iterator::min_by returns the first of equal minima)
startidx(box_) ==
    (CHOOSE i \in 1..Len(box_) :
        \A j \in 1..Len(box_) :
            \/ box_[i][1] + box_[i][2] < box_[j][1] + box_[j][2]
            \/ (box_[i][1] + box_[i][2] = box_[j][1] + box_[j][2] /\ i <= j))
    - 1

\* the remainder of Rust's % on isize: it has the sign of the dividend
TruncRem(a, b) == a - b * TruncDiv(a, b)

\* the rows rolled the other way
roll_rows_back(arr, shift) ==
    LET n_rows == Len(arr)
    IN  IF n_rows = 0 THEN arr
        ELSE LET split_point == (TruncRem(shift, n_rows) + n_rows) % n_rows
             IN  SubSeq(arr, split_point + 1, n_rows)
                 \o SubSeq(arr, 1, split_point)

\* roll_rows lines 35-50: the array split at n_rows - normalized_shift, the
\* bottom part put in front of the top part
roll_rows(arr, shift) ==
    LET n_rows == Len(arr)
    IN  IF n_rows = 0 THEN arr
        ELSE LET normalized_shift == (TruncRem(shift, n_rows) + n_rows) % n_rows
                 split_point == n_rows - normalized_shift
             IN  SubSeq(arr, split_point + 1, n_rows)
                 \o SubSeq(arr, 1, split_point)

\* the row boxes_from_bitmap stores for an accepted candidate
StoredBox(c, in) ==
    Bind(ScaleBox(get_mini_boxes(c.rect), in), LAMBDA b :
        roll_rows(b, 4 - startidx(b)))

\* boxes_from_bitmap lines 220-271: one turn of the loop; every `continue`
\* leaves the zero row and the zero score of the candidate in place
Candidate ==
    /\ ppc = "loop"
    /\ index < Len(boxes)
    /\ LET c == ContourPool[post_in.contours[index + 1]]
       IN  IF \/ SizeRejected(c.sside)
              \/ post_in.box_thresh > c.score
              \/ c.usside < min_size + 2
           THEN UNCHANGED <<boxes, scores>>
           ELSE /\ scores' = [scores EXCEPT ![index + 1] = c.score]
                /\ boxes' = [boxes EXCEPT ![index + 1] = StoredBox(c, post_in)]
    /\ index' = index + 1
    /\ UNCHANGED <<ppc, post_in, polys, quadrilateral, detVars, arrVars,
                   quadVars, rollVars, dbVars, loadVars,
                   rotVars>>

\* boxes_from_bitmap line 273: (Some(boxes), Some(scores))
BitmapReturn ==
    /\ ppc = "loop"
    /\ index = Len(boxes)
    /\ ppc' = "some"
    /\ UNCHANGED <<post_in, index, boxes, scores, polys, quadrilateral,
                   detVars, arrVars, quadVars, rollVars,
                   dbVars, loadVars, rotVars>>

\* infer on (None, None): modules/detector/dbnet returns no text lines and
\* an empty mask (lib.rs 181-193); modules/dbnet unwraps the None
\* (lib.rs 241-242) and panics
InferNone ==
    /\ ppc = "none"
    /\ ppc' = IF post_in.crate = "modules/detector/dbnet"
              THEN "done" ELSE "panic"
    /\ UNCHANGED <<post_in, index, boxes, scores, polys, quadrilateral,
                   detVars, arrVars, quadVars, rollVars,
                   dbVars, loadVars, rotVars>>

BoxSum(box_) ==
    box_[1][1] + box_[1][2] + box_[2][1] + box_[2][2]
    + box_[3][1] + box_[3][2] + box_[4][1] + box_[4][2]

\* adjust_result_coordinates and `as i64` on one coordinate: the product
\* with the ratio, truncated
adjust_result_coordinates(v, ratio) == (v * ratio.num) \div ratio.den

\* filter_boxes_and_adjust: the rows whose coordinates sum to more than 0,
\* in order, scaled by the ratio
filter_boxes_and_adjust(bs, ratio) ==
    Bind(SelectSeq(bs, LAMBDA b : BoxSum(b) > 0), LAMBDA kept :
        [k \in 1..Len(kept) |->
            [i \in 1..4 |-> <<adjust_result_coordinates(kept[k][i][1], ratio),
                              adjust_result_coordinates(kept[k][i][2], ratio)>>]])

FilterBoxesAndAdjust ==
    /\ ppc = "some"
    /\ polys' = filter_boxes_and_adjust(boxes, post_in.ratio)
    /\ ppc' = "filtered"
    /\ UNCHANGED <<post_in, index, boxes, scores, quadrilateral, detVars,
                   arrVars, quadVars, rollVars, dbVars,
                   loadVars, rotVars>>

\* twice the area of the triangle a b c, signed
Cross(a, b, c) ==
    (b[1] - a[1]) * (c[2] - a[2]) - (b[2] - a[2]) * (c[1] - a[1])

\* twice the area enclosed by the cycle a b c d (shoelace), unsigned
Cycle2(a, b, c, d) ==
    Abs(a[1] * b[2] - b[1] * a[2] + b[1] * c[2] - c[1] * b[2]
        + c[1] * d[2] - d[1] * c[2] + d[1] * a[2] - a[1] * d[2])

\* Quadrilateral::area doubled: the convex hull of four points is the
\* largest of the four triangles and the three cycles through them
HullArea2(pts) ==
    LET a == pts[1]
        b == pts[2]
        c == pts[3]
        d == pts[4]
    IN  Max(Max(Max(Abs(Cross(a, b, c)), Abs(Cross(a, b, d))),
                Max(Abs(Cross(a, c, d)), Abs(Cross(b, c, d)))),
            Max(Cycle2(a, b, c, d), Max(Cycle2(a, b, d, c), Cycle2(a, c, b, d))))

\* infer, lib.rs 195-207: polys zipped with scores by position, a
\* Quadrilateral from each pair, those of area at least 16 kept
zip_quadrilaterals(ps, ss) ==
    Bind([k \in 1..Min(Len(ps), Len(ss)) |-> QuadNew(ps[k], ss[k])],
         LAMBDA qs : SelectSeq(qs, LAMBDA v : HullArea2(v.pts) >= 2 * 16))

BuildQuadrilaterals ==
    /\ ppc = "filtered"
    /\ quadrilateral' = zip_quadrilaterals(polys, scores)
    /\ ppc' = "done"
    /\ UNCHANGED <<post_in, index, boxes, scores, polys, detVars, arrVars,
                   quadVars, rollVars, dbVars, loadVars,
                   rotVars>>

NextPost ==
    \/ BitmapStart
    \/ Candidate
    \/ BitmapReturn
    \/ InferNone
    \/ FilterBoxesAndAdjust
    \/ BuildQuadrilaterals

SpecPost == InitPost /\ [][NextPost]_vars /\ WF_vars(NextPost)

\* ---------------------------------------------------------------- claims
\* the contours of the run, as records of the pool
RunContours == {ContourPool[post_in.contours[i]] : i \in 1..Len(post_in.contours)}

\* the corner order a Quadrilateral built from the contour c would carry
FinalPts(c) ==
    Bind(StoredBox(c, post_in), LAMBDA b :
        sort_pnts([i \in 1..4 |->
            <<adjust_result_coordinates(b[i][1], post_in.ratio),
              adjust_result_coordinates(b[i][2], post_in.ratio)>>]).pts)

ReturnedQuads == {quadrilateral[k] : k \in 1..Len(quadrilateral)}

\* C13: a contour whose minimum-area rectangle has a shorter side below
\* min_size never appears in the output, whatever its score and whatever
\* box_thresh: no Quadrilateral infer returns derives from such a contour.
C13_SmallContourNeverReturned ==
    ppc = "done" =>
        \A q \in ReturnedQuads : \A c \in RunContours :
            c.sside < min_size => q.pts # FinalPts(c)

C13_Witness ==
    /\ ppc = "done"
    /\ quadrilateral # <<>>
    /\ \E c \in RunContours :
          c.sside < min_size /\ c.score >= post_in.box_thresh

\* C14: boxes and scores stay parallel: every Quadrilateral infer returns
\* carries the score computed for the contour its box came from, hence a
\* score of at least box_thresh, also after rejected candidates.
C14_BoxesAndScoresParallel ==
    ppc = "done" =>
        \A q \in ReturnedQuads :
            /\ q.score >= post_in.box_thresh
            /\ \E c \in RunContours : q.pts = FinalPts(c) /\ q.score = c.score

\* C19: the contour extraction fails softly: on an error of the contour
\* finder boxes_from_bitmap yields no boxes and no scores, and infer returns
\* success with no Quadrilaterals, never a panic.
C19_ContourFailureSoft ==
    ~post_in.contours_ok ~>
        (ppc = "done" /\ boxes = <<>> /\ scores = <<>> /\ quadrilateral = <<>>)

\* C29: the canonical form computed by Quadrilateral::new depends only on
\* the set of the four points, not on the order in which they are passed:
\* for every permutation of the input, pts() and vertical() are identical.
C29_OrderIndependent ==
    qpc = "reordered" =>
        /\ reordered.pts = quad.pts
        /\ reordered.vertical = quad.vertical

\* ===================================================================
\* roll_rows and the reorder step of boxes_from_bitmap, on arrays of up to
\* four rows and shifts of either sign
\* ===================================================================
MaxShift == 6

RollRowValues == {<<0, 0>>, <<1, 0>>, <<0, 1>>, <<1, 1>>, <<2, 1>>}

RollArrays == UNION {[1..n -> RollRowValues] : n \in {0, 1, 2, 3, 4}}

InitRoll ==
    /\ rpc = "input"
    /\ roll_in \in [arr : RollArrays, shift : -MaxShift..MaxShift]
    /\ rolled = <<>>
    /\ DetIdle
    /\ ArrIdle
    /\ QuadIdle
    /\ PostIdle
    /\ DbIdle
    /\ LoadIdle
    /\ RotIdle

\* roll_rows(arr, shift)
Roll ==
    /\ rpc = "input"
    /\ rolled' = roll_rows(roll_in.arr, roll_in.shift)
    /\ rpc' = "rolled"
    /\ UNCHANGED <<roll_in, detVars, arrVars, quadVars, postVars, dbVars,
                   loadVars, rotVars>>

\* boxes_from_bitmap lines 258-266 on a box of four points: the roll by
\* 4 - startidx
Reorder ==
    /\ rpc = "input"
    /\ Len(roll_in.arr) = 4
    /\ rolled' = roll_rows(roll_in.arr, 4 - startidx(roll_in.arr))
    /\ rpc' = "reordered"
    /\ UNCHANGED <<roll_in, detVars, arrVars, quadVars, postVars, dbVars,
                   loadVars, rotVars>>

NextRoll == Roll \/ Reorder

SpecRoll == InitRoll /\ [][NextRoll]_vars /\ WF_vars(NextRoll)

PointSum(pt) == pt[1] + pt[2]

\* C25: the reorder step of boxes_from_bitmap is a circular roll: the output
\* is a cyclic rotation of the input order whose index 0 holds a point of
\* minimum x + y, the first such point on ties; and roll_rows(arr, k) moves
\* row i to row (i + k) mod n for every integer k.
C25_ReorderIsCircularRoll ==
    /\ rpc = "rolled" =>
          /\ Len(rolled) = Len(roll_in.arr)
          /\ \A i \in 0..(Len(rolled) - 1) :
                rolled[((i + roll_in.shift) % Len(rolled)) + 1]
                    = roll_in.arr[i + 1]
    /\ rpc = "reordered" =>
          \E s \in 0..3 :
              /\ \A i \in 0..3 : rolled[i + 1] = roll_in.arr[((i + s) % 4) + 1]
              /\ \A j \in 0..3 :
                    PointSum(roll_in.arr[s + 1]) <= PointSum(roll_in.arr[j + 1])
              /\ \A j \in 0..(s - 1) :
                    PointSum(roll_in.arr[s + 1]) < PointSum(roll_in.arr[j + 1])

C25_Witness ==
    /\ rpc = "reordered"
    /\ rolled # roll_in.arr
    /\ \E i, j \in 1..4 :
          /\ i < j
          /\ roll_in.arr[i] # roll_in.arr[j]
          /\ PointSum(roll_in.arr[i]) = PointSum(roll_in.arr[j])
          /\ \A k \in 1..4 : PointSum(roll_in.arr[i]) <= PointSum(roll_in.arr[k])

\* the bands extracted from the image, without the blank padding bands
RealBands == SelectSeq(patch_list, LAMBDA b : ~b.pad)

\* C26 as stated: for every image for which shoud_rearrange is true the band
\* geometry satisfies ph_step <= patch_height <= 2 * ph_step, so consecutive
\* bands overlap or touch and no image row is covered by more than two bands.
C26_TwoWayOverlap ==
    patch_list # <<>> =>
        /\ geo.ph_step <= geo.ph
        /\ geo.ph <= 2 * geo.ph_step
        /\ \A k \in 1..(Len(RealBands) - 1) : RealBands[k + 1].t <= RealBands[k].b
        /\ \A k \in 1..(Len(RealBands) - 2) : RealBands[k + 2].t >= RealBands[k].b

\* C26 amended: ph_step <= patch_height always, and patch_height <=
\* 2 * ph_step whenever there are three bands or more; with two bands the
\* step may be shorter than half a band.  Consecutive bands overlap or
\* touch and no image row is covered by more than two bands.
C26_TwoWayOverlapAmended ==
    patch_list # <<>> =>
        /\ geo.ph_step <= geo.ph
        /\ geo.ph_num >= 3 => geo.ph <= 2 * geo.ph_step
        /\ Len(RealBands) = geo.ph_num
        /\ \A k \in 1..(Len(RealBands) - 1) : RealBands[k + 1].t <= RealBands[k].b
        /\ \A k \in 1..(Len(RealBands) - 2) : RealBands[k + 2].t >= RealBands[k].b

C26_Witness ==
    /\ patch_list # <<>>
    /\ geo.ph_num >= 3
    /\ geo.ph < 2 * geo.ph_step
    /\ geo.ph_step < geo.ph

\* the targets of the sweep over all small images
SweepTargets == {1, 2, 3, 4, 5, 8, 13, 16}

\* C27: whenever shoud_rearrange is true, det_rearrange_forward computes
\* patch_height < long side and ph_num >= 2, so height - patch_height does
\* not underflow, ph_step >= 1 and every band ends within the image; hence
\* extract_patch never clamps, all bands have one shape, pad_num is in
\* 0..pw_num-1 and ph_num + pad_num is divisible by p_num.
GeometrySafe(g) ==
    /\ g.ph < g.h
    /\ g.ph_num >= 2
    /\ g.ph_step >= 1
    /\ \A i \in 0..(g.ph_num - 1) : i * g.ph_step + g.ph <= g.h
    /\ g.pad_num \in 0..(g.pw_num - 1)
    /\ g.p_num >= 1
    /\ (g.ph_num + g.pad_num) % g.p_num = 0
    /\ g.total_patches = g.ph_num + g.pad_num

\* the same for every image of sides up to MaxSide that is rearranged
GeometrySafeOnSweep ==
    \A w \in 1..MaxSide : \A h \in 1..MaxSide : \A t \in SweepTargets :
        shoud_rearrange([width |-> w, height |-> h], t)
            => GeometrySafe(Geometry([width |-> w, height |-> h], t))

C27_GeometrySafe ==
    /\ apc = "start" => GeometrySafeOnSweep
    /\ apc = "extract" => GeometrySafe(geo)
    /\ patch_list # <<>> =>
          /\ Len(patch_list) = geo.total_patches
          /\ \A k \in 1..Len(patch_list) :
                /\ patch_list[k].height = geo.ph
                /\ patch_list[k].width = geo.w
                /\ ~patch_list[k].pad =>
                      /\ patch_list[k].t = (k - 1) * geo.ph_step
                      /\ patch_list[k].b = (k - 1) * geo.ph_step + geo.ph
          /\ StackOk(patch_list, geo)

C27_Witness ==
    /\ patch_list # <<>>
    /\ geo.pad_num > 0
    /\ geo.ph_num >= 3
    /\ geo.transpose

\* C28: unrearrange never indexes out of range: for every geometry accepted
\* by shoud_rearrange and every output patch size psize, each slot visited
\* has its rel_step_list entry, satisfies t <= b <= h (the stitched height),
\* takes its source columns [jj*pw, (jj+1)*pw) from within the patch, and
\* halves a row range [t, t + psize - step) that lies within [0, h), with
\* psize - step not underflowing.
C28_UnrearrangeInRange ==
    /\ apc # "unrearrange_panic"
    /\ (apc = "place" /\ loop_ii < Len(patch_lst)) =>
          LET pidx == loop_ii * geo.pw_num + loop_jj
          IN  /\ pidx + 1 <= Len(rel_step_list)
              /\ LET t == SlotTop(rel_step_list[pidx + 1], geo)
                     b == Min(geo.H, t + geo.psize)
                 IN  /\ 0 <= t /\ t <= b /\ b <= geo.H
                     /\ (loop_jj + 1) * geo.pw <= geo.psize
                     /\ pidx > 0 =>
                           /\ geo.step <= geo.psize
                           /\ t + geo.psize - geo.step <= geo.H

\* C30: every corner of every Quadrilateral returned by infer lies inside
\* the image handed to infer, 0 <= x <= img.width and 0 <= y <= img.height,
\* on the rearranged path and on the single-resize path.
C30_CornersInsideImage ==
    (ppc = "done" /\ "img" \in DOMAIN post_in) =>
        \A q \in ReturnedQuads : \A i \in 1..4 :
            /\ 0 <= q.pts[i][1] /\ q.pts[i][1] <= post_in.img.width
            /\ 0 <= q.pts[i][2] /\ q.pts[i][2] <= post_in.img.height

\* ===================================================================
\* ModelDb::get (interface/src/models/mod.rs): the model file is checked
\* against its SHA-256 and downloaded again once
\* ===================================================================

\* hex digests as failure() formats them ({:x}: lower case)
FileHashes == {"ab12", "cd34"}

\* the expected hashes handed to get, in either case
ExpectedHashes == {"ab12", "AB12", "Cd34", "ffff"}

\* str::to_lowercase on the digests of the model
to_lowercase(h) ==
    CASE h = "AB12" -> "ab12"
      [] h = "Cd34" -> "cd34"
      [] OTHER -> h

\* a check that lets a missing file pass
failure_absent_ok(file, expected_hash) ==
    file # "absent" /\ file # to_lowercase(expected_hash)

\* failure (49-66): true when the file cannot be opened or read, or when its
\* digest differs from the expected hash in lower case
failure(file, expected_hash) ==
    \/ file = "absent"
    \/ file # to_lowercase(expected_hash)

\* download_and_extract (68-150): an Err (request, copy, unpack), a plain
\* file written to file_path, or an archive unpacked next to it, which
\* writes file_path or leaves it as it was
DownloadOutcomes(in, file) ==
    {[ok |-> FALSE, file |-> file]}
    \cup {[ok |-> TRUE, file |-> h] : h \in FileHashes}
    \cup (IF in.tar_gz THEN {[ok |-> TRUE, file |-> file]} ELSE {})

InitDb ==
    /\ mpc = "start"
    /\ db_in \in [hash : ExpectedHashes, tar_gz : BOOLEAN,
                  existed : {"absent"} \cup FileHashes]
    /\ disk_file = db_in.existed
    /\ checks = <<>>
    /\ downloads = 0
    /\ removes = 0
    /\ DetIdle
    /\ ArrIdle
    /\ QuadIdle
    /\ PostIdle
    /\ RollIdle
    /\ LoadIdle
    /\ RotIdle

\* get lines 25-28: create_dir_all(..).unwrap(), then file_path.exists()
GetStart ==
    /\ mpc = "start"
    /\ \E created \in BOOLEAN :
          mpc' = IF ~created THEN "panic"
                 ELSE IF disk_file = "absent" THEN "download" ELSE "check"
    /\ UNCHANGED <<db_in, disk_file, checks, downloads, removes, detVars,
                   arrVars, quadVars, postVars, rollVars,
                   loadVars, rotVars>>

\* get lines 28, 31 and 38: download_and_extract(url, &file_path).unwrap()
DownloadAndExtract ==
    /\ mpc \in {"download", "download_again"}
    /\ \E o \in DownloadOutcomes(db_in, disk_file) :
          /\ disk_file' = o.file
          /\ mpc' = IF ~o.ok THEN "panic"
                    ELSE IF mpc = "download" THEN "check" ELSE "check_again"
    /\ downloads' = downloads + 1
    /\ UNCHANGED <<db_in, checks, removes, detVars, arrVars, quadVars,
                   postVars, rollVars, loadVars, rotVars>>

\* get lines 29 and 36: the first `if failure(&file_path, hash)`
FirstCheck ==
    /\ mpc = "check"
    /\ checks' = Append(checks, failure(disk_file, db_in.hash))
    /\ mpc' = IF failure(disk_file, db_in.hash) THEN "remove" ELSE "check_again"
    /\ UNCHANGED <<db_in, disk_file, downloads, removes, detVars, arrVars,
                   quadVars, postVars, rollVars, loadVars,
                   rotVars>>

\* get lines 30 and 37: `let _ = std::fs::remove_file(&file_path)`, whose
\* error is dropped
RemoveFile ==
    /\ mpc = "remove"
    /\ \E removed \in BOOLEAN :
          disk_file' = IF removed THEN "absent" ELSE disk_file
    /\ removes' = removes + 1
    /\ mpc' = "download_again"
    /\ UNCHANGED <<db_in, checks, downloads, detVars, arrVars, quadVars,
                   postVars, rollVars, loadVars, rotVars>>

\* get lines 33-35 and 40-44: the second `if failure(..) { panic!() }`, then
\* Some(file_path)
SecondCheck ==
    /\ mpc = "check_again"
    /\ checks' = Append(checks, failure(disk_file, db_in.hash))
    /\ mpc' = IF failure(disk_file, db_in.hash) THEN "panic" ELSE "returned"
    /\ UNCHANGED <<db_in, disk_file, downloads, removes, detVars, arrVars,
                   quadVars, postVars, rollVars, loadVars,
                   rotVars>>

NextDb ==
    \/ GetStart
    \/ DownloadAndExtract
    \/ FirstCheck
    \/ RemoveFile
    \/ SecondCheck

SpecDb == InitDb /\ [][NextDb]_vars /\ WF_vars(NextDb)

\* the two digests are the same SHA-256, whatever the case of the letters
SameDigest(a, b) == to_lowercase(a) = to_lowercase(b)

\* downloads made because the file was missing when get was called
FirstDownloads == IF db_in.existed = "absent" THEN 1 ELSE 0

\* C21: get returns a path only when the file at that path matched the
\* expected SHA-256 at its last check; after a mismatch (or an unreadable
\* file) it deletes and downloads the file again exactly once, and a second
\* mismatch aborts the call without returning a path, whether or not the
\* file existed when get was called.
C21_VerifiedOrAborted ==
    /\ mpc = "returned" =>
          /\ disk_file \in FileHashes
          /\ SameDigest(disk_file, db_in.hash)
          /\ checks # <<>> /\ ~checks[Len(checks)]
    /\ Len(checks) <= 2
    /\ removes <= 1
    /\ downloads <= FirstDownloads + removes
    /\ mpc \in {"check_again", "returned"} =>
          /\ removes = (IF checks[1] THEN 1 ELSE 0)
          /\ downloads = FirstDownloads + removes
    /\ (Len(checks) = 2 /\ checks[2]) => mpc = "panic"
    /\ (Len(checks) >= 1 /\ ~checks[1]) => removes = 0

C21_Witness ==
    /\ mpc = "panic"
    /\ Len(checks) = 2 /\ checks[1] /\ checks[2]
    /\ removes = 1
    /\ db_in.existed \in FileHashes
    /\ disk_file \in FileHashes

\* ================================================================ DbNetDetector
\* ---- the Model implementation of DbNetDetector and the head of its infer
\* calls of one run of the detector
MaxCalls == 3

\* fn loaded(&self) -> bool { self.model.is_some() }
loaded(m) == m # "None"

\* load that forgets the session it built
load_model_dropped(m, ok) == "None"

\* fn load: self.model = Some(new_session(self.db.mode_db.get(..)?, ..)?);
\* either `?` returns before the assignment
load_model(m, ok) == IF ok THEN "Some" ELSE m

\* the steps infer takes: DefaultOptions::parse(options)?, then on None
\* self.load()?, then the inference on the session
infer_steps(m, opts_ok, load_ok, run_ok) ==
    IF ~opts_ok THEN <<"parse_err">>
    ELSE IF m = "None"
         THEN IF load_ok
              THEN <<"parse", "load", IF run_ok THEN "run" ELSE "run_err">>
              ELSE <<"parse", "load_err">>
         ELSE <<"parse", IF run_ok THEN "run" ELSE "run_err">>

\* the step a call ended with is an error
StepFailed(steps) == steps[Len(steps)] \in {"parse_err", "load_err", "run_err"}

InitLoad ==
    /\ lpc = "ready"
    /\ model = "None"
    /\ history = <<>>
    /\ DetIdle
    /\ ArrIdle
    /\ QuadIdle
    /\ PostIdle
    /\ RollIdle
    /\ DbIdle
    /\ RotIdle

\* Model::load
ModelLoad ==
    /\ lpc = "ready"
    /\ Len(history) < MaxCalls
    /\ \E ok \in BOOLEAN :
          /\ model' = load_model(model, ok)
          /\ history' = Append(history,
                 [op |-> "load", before |-> loaded(model),
                  steps |-> <<IF ok THEN "load" ELSE "load_err">>,
                  after |-> loaded(load_model(model, ok))])
    /\ UNCHANGED <<lpc, detVars, arrVars, quadVars, postVars, rollVars, dbVars,
                   rotVars>>

\* Model::unload
ModelUnload ==
    /\ lpc = "ready"
    /\ Len(history) < MaxCalls
    /\ model' = "None"
    /\ history' = Append(history,
           [op |-> "unload", before |-> loaded(model), steps |-> <<"unload">>,
            after |-> FALSE])
    /\ UNCHANGED <<lpc, detVars, arrVars, quadVars, postVars, rollVars, dbVars,
                   rotVars>>

\* Detector::infer of DbNetDetector, lines 110-117 and the inference after them
DbNetInfer ==
    /\ lpc = "ready"
    /\ Len(history) < MaxCalls
    /\ \E opts_ok \in BOOLEAN, load_ok \in BOOLEAN, run_ok \in BOOLEAN :
          LET steps == infer_steps(model, opts_ok, load_ok, run_ok)
              m2 == IF opts_ok /\ model = "None"
                    THEN load_model(model, load_ok)
                    ELSE model
          IN /\ model' = m2
             /\ history' = Append(history,
                    [op |-> "infer", before |-> loaded(model),
                     steps |-> steps, after |-> loaded(m2)])
    /\ UNCHANGED <<lpc, detVars, arrVars, quadVars, postVars, rollVars, dbVars,
                   rotVars>>

NextLoad == ModelLoad \/ ModelUnload \/ DbNetInfer

SpecLoad == InitLoad /\ [][NextLoad]_vars

\* how many times a call attempted load
LoadAttempts(steps) ==
    Cardinality({i \in 1..Len(steps) : steps[i] \in {"load", "load_err"}})

\* the call ran the inference
RanInference(steps) == \E i \in 1..Len(steps) : steps[i] \in {"run", "run_err"}

\* the load attempt of the call comes before its inference
LoadBeforeInference(steps) ==
    \A i, j \in 1..Len(steps) :
        steps[i] \in {"load", "load_err"} /\ steps[j] \in {"run", "run_err"}
            => i < j

\* what every call guarantees, whatever infer was given
LifecycleOfLoadAndUnload ==
    /\ lpc = "ready" /\ history = <<>> => ~loaded(model)
    /\ lpc = "ready" /\ history # <<>> =>
           loaded(model) = history[Len(history)].after
    /\ \A i \in 1..Len(history) :
         LET e == history[i]
         IN /\ e.op = "unload" => ~e.after
            /\ e.op = "load" /\ ~StepFailed(e.steps) => e.after

\* an infer on an unloaded detector: one load, before the inference, and the
\* detector loaded afterwards; a failed load: the error, no inference, unloaded
LazyInfer(e) ==
    /\ LoadAttempts(e.steps) = 1
    /\ LoadBeforeInference(e.steps)
    /\ IF "load_err" \in {e.steps[k] : k \in 1..Len(e.steps)}
       THEN StepFailed(e.steps) /\ ~RanInference(e.steps) /\ ~e.after
       ELSE RanInference(e.steps) /\ e.after

\* C23 as stated: loaded() is false initially and after unload, true after a
\* successful load; EVERY infer on an unloaded detector attempts load exactly
\* once before the inference and leaves the detector loaded, or, when that
\* load fails, returns the error without inference and stays unloaded
C23_LazyLoading ==
    /\ LifecycleOfLoadAndUnload
    /\ \A i \in 1..Len(history) :
         history[i].op = "infer" /\ ~history[i].before => LazyInfer(history[i])

\* C23 amended: the same, for every infer on an unloaded detector whose
\* options parse; an infer whose options do not parse returns the error
\* without a load attempt and without inference, and changes nothing
C23_LazyLoadingAmended ==
    /\ LifecycleOfLoadAndUnload
    /\ \A i \in 1..Len(history) :
         LET e == history[i]
         IN /\ e.op = "infer" /\ ~e.before /\ e.steps[1] = "parse"
                 => LazyInfer(e)
            /\ e.op = "infer" /\ e.steps[1] = "parse_err"
                 => /\ LoadAttempts(e.steps) = 0
                    /\ ~RanInference(e.steps)
                    /\ e.after = e.before

\* a detector that was loaded, unloaded, and then loaded again by an infer
C23_Witness ==
    /\ Len(history) = 3
    /\ history[1].op = "load" /\ history[1].after
    /\ history[2].op = "unload"
    /\ history[3].op = "infer" /\ ~history[3].before
    /\ history[3].steps = <<"parse", "load", "run">>
    /\ loaded(model)

\* ================================================================ rotations
\* ---- rotate_right and rotate_left of CpuImageProcessor and
\* RayonImageProcessor on whole images: data is the row-major buffer, the byte
\* at offset o is data[o + 1]
MaxDim == 2

\* a byte of the destination buffer that no copy wrote (set_len without init)
Uninit == -1

PixelValues == {0, 255}

\* images whose buffer has width * height * channels bytes: every
\* single-channel image over PixelValues, and the three-channel image whose
\* bytes are numbered
RotImages ==
    UNION { { [data |-> d, width |-> w, height |-> h, channels |-> 1] :
                d \in [1..(w * h) -> PixelValues] }
            \cup { [data |-> [i \in 1..(w * h * 3) |-> i],
                    width |-> w, height |-> h, channels |-> 3] } :
            w \in 0..MaxDim, h \in 0..MaxDim }

Processors == {"cpu", "rayon"}

\* the bytes a scatter loop leaves in a buffer of n bytes: dst(r, c) is the
\* offset the pixel of source row r, column c is copied to
Scatter(im, n, dst(_, _)) ==
    LET width_u == im.width
        height_u == im.height
        channels_u == im.channels
        writers(d) ==
            { t \in (0..(height_u - 1)) \X (0..(width_u - 1))
                      \X (0..(channels_u - 1)) : dst(t[1], t[2]) + t[3] = d }
    IN  [i \in 1..n |->
            IF writers(i - 1) = {}
            THEN Uninit
            ELSE LET t == CHOOSE t \in writers(i - 1) : TRUE
                 IN  im.data[(t[1] * width_u + t[2]) * channels_u + t[3] + 1]]

\* CpuImageProcessor::rotate_right: dst_r = c, dst_c = height - 1 - r
cpu_rotate_right(im) ==
    LET dst(r, c) == (c * im.height + (im.height - 1 - r))
                        * im.channels
    IN  [data |-> Scatter(im, im.width * im.height * im.channels,
                          dst),
         width |-> im.height, height |-> im.width,
         channels |-> im.channels]

\* CpuImageProcessor::rotate_left: dst_r = width - 1 - c, dst_c = r
cpu_rotate_left(im) ==
    LET dst(r, c) == ((im.width - 1 - c) * im.height + r)
                        * im.channels
    IN  [data |-> Scatter(im, im.width * im.height * im.channels,
                          dst),
         width |-> im.height, height |-> im.width,
         channels |-> im.channels]

\* rayon's par_chunks_mut: "Panics if chunk_size is 0"
par_chunks_mut_panics(chunk_size) == chunk_size = 0

\* the chunk size both rotations of RayonImageProcessor ask for
rayon_chunk_size(im) == im.height * im.channels

\* the bytes a gather over the chunks leaves: chunk dst_r, pixel dst_c of it,
\* read from the source offset src(dst_r, dst_c)
Gather(im, n, src(_, _)) ==
    LET chunk == rayon_chunk_size(im)
        channels_u == im.channels
    IN  [i \in 1..n |->
            LET dst_r == (i - 1) \div chunk
                dst_c == ((i - 1) % chunk) \div channels_u
                k == ((i - 1) % chunk) % channels_u
            IN  im.data[src(dst_r, dst_c) + k + 1]]

\* RayonImageProcessor::rotate_right: r = height - 1 - dst_c, c = dst_r
rayon_rotate_right(im) ==
    LET src(dst_r, dst_c) == ((im.height - 1 - dst_c) * im.width + dst_r)
                                * im.channels
    IN  [data |-> Gather(im, im.width * im.height * im.channels,
                         src),
         width |-> im.height, height |-> im.width,
         channels |-> im.channels]

\* RayonImageProcessor::rotate_left: r = dst_c, c = width - 1 - dst_r
rayon_rotate_left(im) ==
    LET src(dst_r, dst_c) == (dst_c * im.width + (im.width - 1 - dst_r))
                                * im.channels
    IN  [data |-> Gather(im, im.width * im.height * im.channels,
                         src),
         width |-> im.height, height |-> im.width,
         channels |-> im.channels]

InitRotate ==
    /\ tpc = "input"
    /\ rot_in \in [processor : Processors, img : RotImages]
    /\ rot_img = rot_in.img
    /\ DetIdle
    /\ ArrIdle
    /\ QuadIdle
    /\ PostIdle
    /\ RollIdle
    /\ DbIdle
    /\ LoadIdle

\* ImageOp::rotate_right of the chosen processor
RotateRight ==
    /\ tpc = "input"
    /\ IF rot_in.processor = "cpu"
       THEN /\ rot_img' = cpu_rotate_right(rot_img)
            /\ tpc' = "right"
       ELSE IF par_chunks_mut_panics(rayon_chunk_size(rot_img))
            THEN /\ tpc' = "panic"
                 /\ UNCHANGED rot_img
            ELSE /\ rot_img' = rayon_rotate_right(rot_img)
                 /\ tpc' = "right"
    /\ UNCHANGED <<rot_in, detVars, arrVars, quadVars, postVars, rollVars,
                   dbVars, loadVars>>

\* ImageOp::rotate_left of the chosen processor
RotateLeft ==
    /\ tpc = "right"
    /\ IF rot_in.processor = "cpu"
       THEN /\ rot_img' = cpu_rotate_left(rot_img)
            /\ tpc' = "left"
       ELSE IF par_chunks_mut_panics(rayon_chunk_size(rot_img))
            THEN /\ tpc' = "panic"
                 /\ UNCHANGED rot_img
            ELSE /\ rot_img' = rayon_rotate_left(rot_img)
                 /\ tpc' = "left"
    /\ UNCHANGED <<rot_in, detVars, arrVars, quadVars, postVars, rollVars,
                   dbVars, loadVars>>

NextRotate == RotateRight \/ RotateLeft

SpecRotate == InitRotate /\ [][NextRotate]_vars /\ WF_vars(NextRotate)

\* C24: rotate_right swaps width and height, and rotate_left after
\* rotate_right gives back the image (width, height, every byte), for every
\* image and for both processors; so neither rotation fails.
C24_RotateLeftInvertsRight ==
    /\ tpc # "panic"
    /\ tpc = "right" => /\ rot_img.width = rot_in.img.height
                        /\ rot_img.height = rot_in.img.width
    /\ tpc = "left" => rot_img = rot_in.img

====
